---- MODULE Spec2Model ----
(***************************************************************************)
(* State-machine model of the myevents-server request handlers: the table  *)
(* booking routes (routes/bookings.js), the venue routes                   *)
(* (routes/bookingVenues.js), the poll / submission routes (routes/polls.js,*)
(* routes/public.js, routes/results.js), the setup, settings, backup and   *)
(* account deletion routes (routes/auth.js, routes/settings.js) and the    *)
(* access guard (middleware protect) over the MongoDB collections they     *)
(* share.  Every `await` on a model call is one store step; the handlers   *)
(* whose interleaving matters are split at those steps, the others run as  *)
(* one step.                                                               *)
(***************************************************************************)
EXTENDS Integers, FiniteSets, Sequences, TLC

\* ------------------------------------------------------------------ bounds
MaxBookings == 2      \* Booking documents ever created in one behaviour
MaxPolls    == 1      \* Poll documents ever created in one behaviour
MaxSubs     == 1      \* Submission documents ever created in one behaviour
MaxTime     == 1      \* last value of the server clock
MaxUsers    == 2      \* User documents ever created in one behaviour

\* ------------------------------------------------------- program constants
DayLen == 24          \* setHours(0,0,0,0) .. setHours(23,59,59,999), in hours

\* --------------------------------------------------------------- universes
Users    == {"u1", "u2"}
VenueIds == {"v1", "v2"}
ReqIds   == {"r1", "r2"}          \* requests that may be in flight together
Tables   == {"T1", "T2"}
Guests   == {"g1", "g2"}          \* guestName / guestEmail / guestPhone of a request
Notes    == {"n1"}                \* adminNotes an owner may attach
Dates    == {0, 23, 24}           \* two instants of day 0, one of day 1
Slots    == {[startTime |-> 18, endTime |-> 20],
             [startTime |-> 18, endTime |-> 22]}
BookingIds == 1..MaxBookings

\* Request bodies of the public booking route: the base request and every
\* request that differs from it in exactly one component of the tuple.
BaseBook == [venue |-> "v1", tableNumber |-> "T1", date |-> 0,
             timeSlot |-> [startTime |-> 18, endTime |-> 20], guestName |-> "g1"]
DiffCount(x) ==
    (IF x.venue = BaseBook.venue THEN 0 ELSE 1)
  + (IF x.tableNumber = BaseBook.tableNumber THEN 0 ELSE 1)
  + (IF x.date = BaseBook.date THEN 0 ELSE 1)
  + (IF x.timeSlot = BaseBook.timeSlot THEN 0 ELSE 1)
BookInputs ==
    {x \in [venue : VenueIds, tableNumber : Tables, date : Dates, timeSlot : Slots,
             guestName : {BaseBook.guestName}] :
        DiffCount(x) <= 1}

VARIABLES
    venues,        \* BookingVenue collection: set of [id, user, isActive]
    bookings,      \* Booking collection: set of booking documents
    bookingSeq,    \* number of Booking _ids handed out so far
    polls,         \* Poll collection
    submissions,   \* Submission collection
    pollSeq,       \* number of Poll _ids handed out so far
    subSeq,        \* number of Submission _ids handed out so far
    now,           \* server clock (new Date())
    users,         \* User collection: set of [id, email, role, isSetupComplete]
    userSeq,       \* number of User _ids handed out so far
    settings,      \* Settings collection: documents in insertion order
    venueSeq,      \* number of BookingVenue _ids handed out so far
    importSeq,     \* number of import-backup requests accepted so far
    reqs,          \* per request in flight: handler position and locals
    resp           \* the response sent last

vars == <<venues, bookings, bookingSeq, polls, submissions, pollSeq, subSeq,
          now, users, userSeq, settings, venueSeq, importSeq, reqs, resp>>

bookVars == <<venues, bookings, bookingSeq>>
pollVars == <<polls, submissions, pollSeq, subSeq, now>>
authVars == <<users, userSeq, settings>>
importVars == <<venueSeq, importSeq>>

Idle == [pc |-> "idle"]
NoResp == [op |-> "none", status |-> 0, msg |-> "none"]
Reply(op, status, msg) == [op |-> op, status |-> status, msg |-> msg]

AllIdle == \A r \in ReqIds : reqs[r].pc = "idle"
InFlight(pcs) == Cardinality({r \in ReqIds : reqs[r].pc \in pcs})

\* A request field that may be left out: {} when undefined, {x} when x.
Optional(S) == {{}} \cup {{x} : x \in S}
OrElse(o, d) == IF o = {} THEN d ELSE CHOOSE x \in o : TRUE
Truthy(o) == o = {TRUE}

\* ----------------------------------------------------------- booking store
startOfDay(d) == d - (d % DayLen)
endOfDay(d)   == startOfDay(d) + (DayLen - 1)

ActiveStatus == {"pending", "confirmed"}

\* existingBooking with the date compared as an instant instead of a day range.
existingBooking_exactDate(v, t, d, ts) ==
    {b \in bookings :
        /\ b.venue = v
        /\ b.tableNumber = t
        /\ b.date = d
        /\ b.timeSlot.startTime = ts.startTime
        /\ b.timeSlot.endTime = ts.endTime
        /\ b.status \in {"pending", "confirmed"}}

\* existingBooking without the status filter.
existingBooking_anyStatus(v, t, d, ts) ==
    {b \in bookings :
        /\ b.venue = v
        /\ b.tableNumber = t
        /\ b.date >= startOfDay(d)
        /\ b.date <= endOfDay(d)
        /\ b.timeSlot.startTime = ts.startTime
        /\ b.timeSlot.endTime = ts.endTime}

\* Booking.findOne({venue, tableNumber, date:{$gte,$lte}, 'timeSlot.startTime',
\*                  'timeSlot.endTime', status:{$in:[pending,confirmed]}})
existingBooking(v, t, d, ts) ==
    {b \in bookings :
        /\ b.venue = v
        /\ b.tableNumber = t
        /\ b.date >= startOfDay(d)
        /\ b.date <= endOfDay(d)
        /\ b.timeSlot.startTime = ts.startTime
        /\ b.timeSlot.endTime = ts.endTime
        /\ b.status \in ActiveStatus}

VenueById(v) == {x \in venues : x.id = v}
BookingById(i) == {b \in bookings : b.id = i}

\* Booking.create({... guestName, guestEmail, guestPhone, status: 'pending'})
\* with the schema defaults; guestName stands for the guest's fields, which
\* are copied from the request body together.
NewBooking(i, a) ==
    [id |-> i, venue |-> a.venue, tableNumber |-> a.tableNumber, date |-> a.date,
     timeSlot |-> a.timeSlot, guestName |-> a.guestName, status |-> "pending",
     confirmedAt |-> FALSE, adminNotes |-> ""]

\* The public routes' test with the isActive part left out.
venueClosed_missingOnly(v) == VenueById(v) = {}

\* if (!venue || !venue.isActive) -> 404
venueClosed(v) == \A x \in VenueById(v) : ~x.isActive

\* ------------------------------------------- POST /bookings/public/:id/book
\* Field validation, then BookingVenue.findById.
BookStart(r, a, ok) ==
    /\ reqs[r].pc = "idle"
    /\ bookingSeq + InFlight({"book_check", "book_insert"}) < MaxBookings
    /\ UNCHANGED <<bookVars, pollVars, authVars, importVars>>
    /\ IF ~ok
       THEN /\ resp' = Reply("book", 400, "missing_fields")
            /\ UNCHANGED reqs
       ELSE IF venueClosed(a.venue)
       THEN /\ resp' = Reply("book", 404, "venue_not_found_or_inactive")
            /\ UNCHANGED reqs
       ELSE /\ reqs' = [reqs EXCEPT ![r] = [pc |-> "book_check", body |-> a]]
            /\ UNCHANGED resp

\* Booking.findOne for a booking that holds the tuple.
BookCheck(r) ==
    /\ reqs[r].pc = "book_check"
    /\ UNCHANGED <<bookVars, pollVars, authVars, importVars>>
    /\ LET a == reqs[r].body IN
       IF existingBooking(a.venue, a.tableNumber, a.date, a.timeSlot) # {}
       THEN /\ resp' = Reply("book", 400, "already_booked")
            /\ reqs' = [reqs EXCEPT ![r] = Idle]
       ELSE /\ reqs' = [reqs EXCEPT ![r].pc = "book_insert"]
            /\ UNCHANGED resp

\* Booking.create.
BookInsert(r) ==
    /\ reqs[r].pc = "book_insert"
    /\ bookings' = bookings \cup {NewBooking(bookingSeq + 1, reqs[r].body)}
    /\ bookingSeq' = bookingSeq + 1
    /\ resp' = Reply("book", 201, "created")
    /\ reqs' = [reqs EXCEPT ![r] = Idle]
    /\ UNCHANGED <<venues, pollVars, authVars, importVars>>

\* ------------------------------------------------ admin booking operations
\* PUT /bookings/admin/:id/confirm
\* Booking.findById(id).populate('venue'), ownership test, status and
\* confirmedAt set, adminNotes set if the body has them, booking.save().
AdminConfirm(u, i, n) ==
    /\ UNCHANGED <<venues, bookingSeq, pollVars, authVars, reqs, importVars>>
    /\ IF BookingById(i) = {}
       THEN /\ resp' = Reply("confirm", 404, "booking_not_found")
            /\ UNCHANGED bookings
       ELSE LET b == CHOOSE x \in BookingById(i) : TRUE IN
            IF VenueById(b.venue) = {}
            THEN /\ resp' = Reply("confirm", 500, "server_error")
                 /\ UNCHANGED bookings
            ELSE IF \E x \in VenueById(b.venue) : x.user # u
            THEN /\ resp' = Reply("confirm", 403, "not_authorized")
                 /\ UNCHANGED bookings
            ELSE /\ bookings' = (bookings \ {b}) \cup
                       {[b EXCEPT !.status = "confirmed", !.confirmedAt = TRUE,
                                  !.adminNotes = OrElse(n, b.adminNotes)]}
                 /\ resp' = Reply("confirm", 200, "ok")

\* AdminCancel without the ownership test.
AdminCancel_noOwnerTest(u, i, n) ==
    /\ UNCHANGED <<venues, bookingSeq, pollVars, authVars, reqs, importVars>>
    /\ IF BookingById(i) = {}
       THEN /\ resp' = Reply("cancel", 404, "booking_not_found")
            /\ UNCHANGED bookings
       ELSE LET b == CHOOSE x \in BookingById(i) : TRUE IN
            /\ bookings' = (bookings \ {b}) \cup {[b EXCEPT !.status = "cancelled"]}
            /\ resp' = Reply("cancel", 200, "ok")

\* PUT /bookings/admin/:id/cancel
\* Booking.findById(id).populate('venue'), ownership test, status set,
\* adminNotes set if the body has them, booking.save().
AdminCancel(u, i, n) ==
    /\ UNCHANGED <<venues, bookingSeq, pollVars, authVars, reqs, importVars>>
    /\ IF BookingById(i) = {}
       THEN /\ resp' = Reply("cancel", 404, "booking_not_found")
            /\ UNCHANGED bookings
       ELSE LET b == CHOOSE x \in BookingById(i) : TRUE IN
            IF VenueById(b.venue) = {}
            THEN /\ resp' = Reply("cancel", 500, "server_error")
                 /\ UNCHANGED bookings
            ELSE IF \E x \in VenueById(b.venue) : x.user # u
            THEN /\ resp' = Reply("cancel", 403, "not_authorized")
                 /\ UNCHANGED bookings
            ELSE /\ bookings' = (bookings \ {b}) \cup
                       {[b EXCEPT !.status = "cancelled",
                                  !.adminNotes = OrElse(n, b.adminNotes)]}
                 /\ resp' = Reply("cancel", 200, "ok")

\* DELETE /bookings/admin/:id
\* Booking.findById(id).populate('venue'), ownership test, booking.deleteOne().
AdminDelete(u, i) ==
    /\ UNCHANGED <<venues, bookingSeq, pollVars, authVars, reqs, importVars>>
    /\ IF BookingById(i) = {}
       THEN /\ resp' = Reply("delete", 404, "booking_not_found")
            /\ UNCHANGED bookings
       ELSE LET b == CHOOSE x \in BookingById(i) : TRUE IN
            IF VenueById(b.venue) = {}
            THEN /\ resp' = Reply("delete", 500, "server_error")
                 /\ UNCHANGED bookings
            ELSE IF \E x \in VenueById(b.venue) : x.user # u
            THEN /\ resp' = Reply("delete", 403, "not_authorized")
                 /\ UNCHANGED bookings
            ELSE /\ bookings' = bookings \ {b}
                 /\ resp' = Reply("delete", 200, "ok")

\* PUT /booking-venues/:id with body {isActive}
VenueUpdate(u, v, act) ==
    /\ UNCHANGED <<bookings, bookingSeq, pollVars, authVars, reqs, importVars>>
    /\ IF VenueById(v) = {}
       THEN /\ resp' = Reply("venue_update", 404, "venue_not_found")
            /\ UNCHANGED venues
       ELSE LET x == CHOOSE y \in VenueById(v) : TRUE IN
            IF x.user # u
            THEN /\ resp' = Reply("venue_update", 403, "not_authorized")
                 /\ UNCHANGED venues
            ELSE /\ venues' = (venues \ {x}) \cup {[x EXCEPT !.isActive = act]}
                 /\ resp' = Reply("venue_update", 200, "ok")

\* DELETE /booking-venues/:id : BookingVenue.findById and the ownership test,
VenueDeleteStart(r, u, v) ==
    /\ reqs[r].pc = "idle"
    /\ UNCHANGED <<bookVars, pollVars, authVars, importVars>>
    /\ IF VenueById(v) = {}
       THEN /\ resp' = Reply("venue_delete", 404, "venue_not_found")
            /\ UNCHANGED reqs
       ELSE IF \E x \in VenueById(v) : x.user # u
       THEN /\ resp' = Reply("venue_delete", 403, "not_authorized")
            /\ UNCHANGED reqs
       ELSE /\ reqs' = [reqs EXCEPT ![r] = [pc |-> "venue_delete_bookings", venue |-> v]]
            /\ UNCHANGED resp

\* then Booking.deleteMany({venue: venue._id}),
VenueDeleteBookings(r) ==
    /\ reqs[r].pc = "venue_delete_bookings"
    /\ bookings' = {b \in bookings : b.venue # reqs[r].venue}
    /\ reqs' = [reqs EXCEPT ![r].pc = "venue_delete_venue"]
    /\ UNCHANGED <<venues, bookingSeq, pollVars, authVars, resp, importVars>>

\* then venue.deleteOne().
VenueDeleteVenue(r) ==
    /\ reqs[r].pc = "venue_delete_venue"
    /\ venues' = {x \in venues : x.id # reqs[r].venue}
    /\ resp' = Reply("venue_delete", 200, "ok")
    /\ reqs' = [reqs EXCEPT ![r] = Idle]
    /\ UNCHANGED <<bookings, bookingSeq, pollVars, authVars, importVars>>

\* ---------------------------------------------------- booking read paths
\* a response that lists documents, by their _id
ListReply(op, status, msg, items) ==
    [op |-> op, status |-> status, msg |-> msg, items |-> items]

BookingsOfVenue(v) == {b.id : b \in {x \in bookings : x.venue = v}}

\* BookingVenue.find({user}) without the filter.
VenuesOfUser_everyVenue(u) == {x.id : x \in venues}

\* BookingVenue.find({user: req.user.id})
VenuesOfUser(u) == {x.id : x \in {y \in venues : y.user = u}}

\* GET /booking-venues
ListVenues(u) ==
    /\ UNCHANGED <<bookVars, pollVars, authVars, reqs, importVars>>
    /\ resp' = ListReply("venue_list", 200, "ok", VenuesOfUser(u))

\* GET /bookings/admin/all : the caller's venues, then Booking.find({venue: {$in: venueIds}})
ListAllBookings(u) ==
    /\ UNCHANGED <<bookVars, pollVars, authVars, reqs, importVars>>
    /\ resp' = ListReply("booking_list", 200, "ok",
                         {b.id : b \in {x \in bookings : x.venue \in VenuesOfUser(u)}})

\* GetVenue with the ownership test made before the existence test.
GetVenue_ownerFirst(u, v) ==
    /\ UNCHANGED <<bookVars, pollVars, authVars, reqs, importVars>>
    /\ IF \A x \in VenueById(v) : x.user # u
       THEN resp' = ListReply("venue_get", 403, "not_authorized", {})
       ELSE resp' = ListReply("venue_get", 200, "ok", {v})

\* GET /booking-venues/:id
GetVenue(u, v) ==
    /\ UNCHANGED <<bookVars, pollVars, authVars, reqs, importVars>>
    /\ IF VenueById(v) = {}
       THEN resp' = ListReply("venue_get", 404, "venue_not_found", {})
       ELSE IF \E x \in VenueById(v) : x.user # u
       THEN resp' = ListReply("venue_get", 403, "not_authorized", {})
       ELSE resp' = ListReply("venue_get", 200, "ok", {v})

\* GET /bookings/venue/:venueId
VenueBookings(u, v) ==
    /\ UNCHANGED <<bookVars, pollVars, authVars, reqs, importVars>>
    /\ IF VenueById(v) = {}
       THEN resp' = ListReply("venue_bookings", 404, "venue_not_found", {})
       ELSE IF \E x \in VenueById(v) : x.user # u
       THEN resp' = ListReply("venue_bookings", 403, "not_authorized", {})
       ELSE resp' = ListReply("venue_bookings", 200, "ok", BookingsOfVenue(v))

\* GET /booking-venues/:id/bookings
VenueOwnBookings(u, v) ==
    /\ UNCHANGED <<bookVars, pollVars, authVars, reqs, importVars>>
    /\ IF VenueById(v) = {}
       THEN resp' = ListReply("venue_own_bookings", 404, "venue_not_found", {})
       ELSE IF \E x \in VenueById(v) : x.user # u
       THEN resp' = ListReply("venue_own_bookings", 403, "not_authorized", {})
       ELSE resp' = ListReply("venue_own_bookings", 200, "ok", BookingsOfVenue(v))

\* GET /booking-venues/:id/qrcode : found or not, the caller is not compared
QrCode(u, v) ==
    /\ UNCHANGED <<bookVars, pollVars, authVars, reqs, importVars>>
    /\ IF VenueById(v) = {}
       THEN resp' = ListReply("qrcode", 404, "venue_not_found", {})
       ELSE resp' = ListReply("qrcode", 200, "ok", {v})

\* GET /bookings/public/venues : BookingVenue.find({isActive: true})
PublicVenues ==
    /\ UNCHANGED <<bookVars, pollVars, authVars, reqs, importVars>>
    /\ resp' = ListReply("public_venues", 200, "ok",
                         {x.id : x \in {y \in venues : y.isActive}})

\* bookings.map(b => ({tableNumber, timeSlot, status})): one entry per
\* booking, so the response is the entries with their multiplicities.
\* Entry_withGuest is the entry with the guest's name left in.
Entry_withGuest(b) ==
    [tableNumber |-> b.tableNumber, timeSlot |-> b.timeSlot, status |-> b.status,
     guestName |-> b.guestName]

Entry(b) == [tableNumber |-> b.tableNumber, timeSlot |-> b.timeSlot, status |-> b.status]
EntriesOf(bs) ==
    [e \in {Entry(b) : b \in bs} |-> Cardinality({b \in bs : Entry(b) = e})]

\* Booking.find({venue, date: {$gte: startOfDay, $lte: endOfDay},
\*               status: {$in: ['pending', 'confirmed']}}) over a store bs
dayBookings(bs, v, d) ==
    {b \in bs : /\ b.venue = v
                /\ b.date >= startOfDay(d)
                /\ b.date <= endOfDay(d)
                /\ b.status \in ActiveStatus}

\* GET /bookings/public/:venueId/availability?date=
Availability(v, d) ==
    /\ UNCHANGED <<bookVars, pollVars, authVars, reqs, importVars>>
    /\ IF d = {}
       THEN resp' = ListReply("availability", 400, "missing_date", <<>>)
       ELSE IF venueClosed(v)
       THEN resp' = ListReply("availability", 404, "venue_not_found_or_inactive", <<>>)
       ELSE resp' = ListReply("availability", 200, "ok",
                              EntriesOf(dayBookings(bookings, v, OrElse(d, 0))))

\* ------------------------------------------------------------ initial state
\* Two users, the first made by the setup route and the second by the
\* register route (role defaults to admin), that each created one venue
\* (isActive defaults to true).
\* A booking with status completed comes only from a restored backup; the
\* store starts either without bookings or with one such booking.
CompletedBooking == [NewBooking(1, BaseBook) EXCEPT !.status = "completed"]

StaffUser(i, e) == [id |-> i, email |-> e, role |-> "staff", isSetupComplete |-> FALSE]
SetupUser(i, e) == [id |-> i, email |-> e, role |-> "admin", isSetupComplete |-> TRUE]
RegisteredUser(i, e) == [id |-> i, email |-> e, role |-> "admin", isSetupComplete |-> FALSE]

Init ==
    /\ users = {SetupUser("u1", "e1"), RegisteredUser("u2", "e2")}
    /\ userSeq = 2
    /\ settings = <<[isInitialized |-> TRUE, businessName |-> "b1"]>>   \* made by the setup
    /\ venueSeq = 2
    /\ importSeq = 0
    /\ venues = {[id |-> "v1", user |-> "u1", isActive |-> TRUE],
                 [id |-> "v2", user |-> "u2", isActive |-> TRUE]}
    /\ \/ bookings = {} /\ bookingSeq = 0
       \/ bookings = {CompletedBooking} /\ bookingSeq = 1
    /\ polls = {}
    /\ submissions = {}
    /\ pollSeq = 0
    /\ subSeq = 0
    /\ now = 0
    /\ reqs = [r \in ReqIds |-> Idle]
    /\ resp = NoResp

\* ------------------------------------------------ booking specifications
\* Public booking requests only, interleaved at their store steps.
NextRace ==
    \/ \E r \in ReqIds, a \in BookInputs, ok \in BOOLEAN : BookStart(r, a, ok)
    \/ \E r \in ReqIds : BookCheck(r)
    \/ \E r \in ReqIds : BookInsert(r)
SpecRace == Init /\ [][NextRace]_vars

OneReq == {"r1"}

\* Every booking request, handled one at a time: a request is accepted only
\* when no other request is in flight.
NextSeq ==
    \/ \E r \in OneReq, a \in BookInputs, ok \in BOOLEAN : AllIdle /\ BookStart(r, a, ok)
    \/ \E r \in OneReq : BookCheck(r)
    \/ \E r \in OneReq : BookInsert(r)
    \/ \E u \in Users, i \in BookingIds : AllIdle /\ AdminConfirm(u, i, {})
    \/ \E u \in Users, i \in BookingIds : AllIdle /\ AdminCancel(u, i, {})
    \/ \E u \in Users, i \in BookingIds : AllIdle /\ AdminDelete(u, i)
    \/ \E u \in Users, v \in VenueIds, act \in BOOLEAN : AllIdle /\ VenueUpdate(u, v, act)
SpecSeq == Init /\ [][NextSeq]_vars

\* Every booking request, a public booking request interleaved at its store
\* steps with the admin requests.
NextBook ==
    \/ \E r \in OneReq, a \in BookInputs, ok \in BOOLEAN : BookStart(r, a, ok)
    \/ \E r \in OneReq : BookCheck(r)
    \/ \E r \in OneReq : BookInsert(r)
    \/ \E u \in Users, i \in BookingIds : AdminConfirm(u, i, {})
    \/ \E u \in Users, i \in BookingIds : AdminCancel(u, i, {})
    \/ \E u \in Users, i \in BookingIds : AdminDelete(u, i)
    \/ \E u \in Users, v \in VenueIds, act \in BOOLEAN : VenueUpdate(u, v, act)
SpecBook == Init /\ [][NextBook]_vars

\* ================================================= polls and submissions
PollIds == 1..MaxPolls
ExpireTimes == 0..MaxTime          \* expireAt values a client may send

PollById(i) == {p \in polls : p.id = i}

\* what a read returns of a poll document
PollView(p) == [id |-> p.id, expireAt |-> p.expireAt]

ReadReply(op, status, msg, ps, ss) ==
    [op |-> op, status |-> status, msg |-> msg, at |-> now, polls |-> ps, subs |-> ss]

\* POST /polls : Poll.create({..., expireAt, consentEnabled: consentEnabled || false,
\* user: req.user.id})
CreatePoll(u, e, c) ==
    /\ pollSeq < MaxPolls
    /\ polls' = polls \cup {[id |-> pollSeq + 1, user |-> u, expireAt |-> e,
                             consentEnabled |-> Truthy(c)]}
    /\ pollSeq' = pollSeq + 1
    /\ resp' = Reply("poll_create", 201, "created")
    /\ UNCHANGED <<bookVars, authVars, submissions, subSeq, now, reqs, importVars>>

\* PUT /polls/:id : expireAt || poll.expireAt, consentEnabled unless undefined
UpdatePoll(u, i, e, c) ==
    /\ UNCHANGED <<bookVars, authVars, submissions, pollSeq, subSeq, now, reqs, importVars>>
    /\ IF PollById(i) = {}
       THEN /\ resp' = Reply("poll_update", 404, "poll_not_found")
            /\ UNCHANGED polls
       ELSE LET p == CHOOSE x \in PollById(i) : TRUE IN
            IF p.user # u
            THEN /\ resp' = Reply("poll_update", 403, "not_authorized")
                 /\ UNCHANGED polls
            ELSE /\ polls' = (polls \ {p}) \cup
                       {[p EXCEPT !.expireAt = OrElse(e, p.expireAt),
                                  !.consentEnabled = OrElse(c, p.consentEnabled)]}
                 /\ resp' = Reply("poll_update", 200, "ok")

\* DELETE /polls/:id : Poll.findByIdAndDelete
DeletePoll(u, i) ==
    /\ UNCHANGED <<bookVars, authVars, submissions, pollSeq, subSeq, now, reqs, importVars>>
    /\ IF PollById(i) = {}
       THEN /\ resp' = Reply("poll_delete", 404, "poll_not_found")
            /\ UNCHANGED polls
       ELSE LET p == CHOOSE x \in PollById(i) : TRUE IN
            IF p.user # u
            THEN /\ resp' = Reply("poll_delete", 403, "not_authorized")
                 /\ UNCHANGED polls
            ELSE /\ polls' = polls \ {p}
                 /\ resp' = Reply("poll_delete", 200, "ok")

\* ------------------------------------------- POST /public/submit/:pollId
\* consentAgreed: poll.consentEnabled ? consentAgreed : false, with the value
\* stored under the schema's Boolean type.
persistedConsent_passThrough(poll, consentAgreed) == Truthy(consentAgreed)

persistedConsent(poll, consentAgreed) ==
    IF poll.consentEnabled THEN Truthy(consentAgreed) ELSE FALSE

\* The consent gate without its test.
consentMissing_never(poll, consentAgreed) == FALSE

\* if (poll.consentEnabled && !consentAgreed) -> 400
consentMissing(poll, consentAgreed) == poll.consentEnabled /\ ~Truthy(consentAgreed)

\* the fields of the poll document the submit handler goes on to use
PollSeen(p) == [id |-> p.id, expireAt |-> p.expireAt, consentEnabled |-> p.consentEnabled]

\* Field validation, Poll.findById, consent gate.
SubmitStart(r, i, ok, ca) ==
    /\ reqs[r].pc = "idle"
    /\ subSeq + InFlight({"submit_insert"}) < MaxSubs
    /\ UNCHANGED <<bookVars, pollVars, authVars, importVars>>
    /\ IF ~ok
       THEN /\ resp' = Reply("submit", 400, "missing_fields")
            /\ UNCHANGED reqs
       ELSE IF PollById(i) = {}
       THEN /\ resp' = Reply("submit", 404, "poll_not_found_or_expired")
            /\ UNCHANGED reqs
       ELSE LET poll == CHOOSE x \in PollById(i) : TRUE IN
            IF consentMissing(poll, ca)
            THEN /\ resp' = Reply("submit", 400, "consent_required")
                 /\ UNCHANGED reqs
            ELSE /\ reqs' = [reqs EXCEPT ![r] =
                               [pc |-> "submit_insert", poll |-> PollSeen(poll), consentAgreed |-> ca]]
                 /\ UNCHANGED resp

\* Submission.create({poll: poll._id, ..., consentAgreed, expireAt: poll.expireAt})
SubmitInsert(r) ==
    /\ reqs[r].pc = "submit_insert"
    /\ LET poll == reqs[r].poll
           submission == [id |-> subSeq + 1, poll |-> poll.id,
                          consentAgreed |-> persistedConsent(poll, reqs[r].consentAgreed),
                          expireAt |-> poll.expireAt]
       IN /\ submissions' = submissions \cup {submission}
          /\ resp' = [op |-> "submit", status |-> 201, msg |-> "created",
                      sent |-> reqs[r].consentAgreed,
                      consentAgreed |-> submission.consentAgreed]
    /\ subSeq' = subSeq + 1
    /\ reqs' = [reqs EXCEPT ![r] = Idle]
    /\ UNCHANGED <<bookVars, authVars, polls, pollSeq, now, importVars>>

\* ------------------------------------------------------------ read paths
SubsOf(i) == {s.id : s \in {x \in submissions : x.poll = i}}

\* GET /public/poll/:pollId
PublicPollView(i) ==
    /\ UNCHANGED <<bookVars, pollVars, authVars, reqs, importVars>>
    /\ IF PollById(i) = {}
       THEN resp' = ReadReply("public_poll", 404, "poll_not_found_or_expired", {}, {})
       ELSE resp' = ReadReply("public_poll", 200, "ok", {PollView(p) : p \in PollById(i)}, {})

\* GET /polls/:id
GetPoll(u, i) ==
    /\ UNCHANGED <<bookVars, pollVars, authVars, reqs, importVars>>
    /\ IF PollById(i) = {}
       THEN resp' = ReadReply("poll_get", 404, "poll_not_found", {}, {})
       ELSE IF \E p \in PollById(i) : p.user # u
       THEN resp' = ReadReply("poll_get", 403, "not_authorized", {}, {})
       ELSE resp' = ReadReply("poll_get", 200, "ok", {PollView(p) : p \in PollById(i)}, {})

\* GET /polls : Poll.find({user}) with a submission count per poll
ListPolls(u) ==
    /\ UNCHANGED <<bookVars, pollVars, authVars, reqs, importVars>>
    /\ resp' = ReadReply("poll_list", 200, "ok",
                         {PollView(p) : p \in {x \in polls : x.user = u}}, {})

\* GET /results/:pollId : the poll and Submission.find({poll})
Results(u, i) ==
    /\ UNCHANGED <<bookVars, pollVars, authVars, reqs, importVars>>
    /\ IF PollById(i) = {}
       THEN resp' = ReadReply("results", 404, "poll_not_found_or_expired", {}, {})
       ELSE IF \E p \in PollById(i) : p.user # u
       THEN resp' = ReadReply("results", 403, "not_authorized", {}, {})
       ELSE resp' = ReadReply("results", 200, "ok", {PollView(p) : p \in PollById(i)}, SubsOf(i))

\* GET /polls/public : Poll.find({expireAt: {$gte: new Date()}}) with tallies
PublicActivePolls ==
    /\ UNCHANGED <<bookVars, pollVars, authVars, reqs, importVars>>
    /\ resp' = ReadReply("public_list", 200, "ok",
                         {PollView(p) : p \in {x \in polls : x.expireAt >= now}}, {})

\* ------------------------------------------------------- clock and expiry
Tick ==
    /\ now < MaxTime
    /\ now' = now + 1
    /\ UNCHANGED <<bookVars, authVars, polls, submissions, pollSeq, subSeq, reqs, resp, importVars>>

\* TTL index {expireAt: 1}, expireAfterSeconds: 0 on Poll: the store's
\* background task removes a document some time after its expireAt has passed.
SweepPoll(p) ==
    /\ p \in polls
    /\ p.expireAt < now
    /\ polls' = polls \ {p}
    /\ UNCHANGED <<bookVars, authVars, submissions, pollSeq, subSeq, now, reqs, resp, importVars>>

\* The same index on Submission.
SweepSubmission(s) ==
    /\ s \in submissions
    /\ s.expireAt < now
    /\ submissions' = submissions \ {s}
    /\ UNCHANGED <<bookVars, authVars, polls, pollSeq, subSeq, now, reqs, resp, importVars>>

PollOwners == {"u1"}          \* the user whose polls are followed

\* Poll and submission writes, the submit handler interleaved at its store
\* steps with every other request, the clock and the expiry task.
NextPoll ==
    \/ \E u \in PollOwners, e \in ExpireTimes, c \in Optional(BOOLEAN) : CreatePoll(u, e, c)
    \/ \E u \in Users, i \in PollIds, e \in Optional(ExpireTimes),
          c \in Optional(BOOLEAN) : UpdatePoll(u, i, e, c)
    \/ \E u \in Users, i \in PollIds : DeletePoll(u, i)
    \/ \E r \in OneReq, i \in PollIds, ok \in BOOLEAN, ca \in Optional(BOOLEAN) :
          SubmitStart(r, i, ok, ca)
    \/ \E r \in OneReq : SubmitInsert(r)
    \/ Tick
    \/ \E p \in polls : SweepPoll(p)
    \/ \E s \in submissions : SweepSubmission(s)
InitPoll == Init /\ bookings = {}
SpecPoll == InitPoll /\ [][NextPoll]_vars

\* The same, with the read paths.
NextRead ==
    \/ NextPoll
    \/ \E i \in PollIds : PublicPollView(i)
    \/ \E u \in Users, i \in PollIds : GetPoll(u, i)
    \/ \E u \in Users : ListPolls(u)
    \/ \E u \in Users, i \in PollIds : Results(u, i)
    \/ PublicActivePolls
SpecRead == InitPoll /\ [][NextRead]_vars

\* ===================================================== setup and settings
Emails == {"e1", "e2"}
UserIdOf(n) == <<"u1", "u2", "u3", "u4">>[n]
UserById(u) == {x \in users : x.id = u}

\* Settings documents: the fields the routes branch on or overwrite
DefaultSettings == [isInitialized |-> FALSE, businessName |-> "EventPro"]
InitializedSettings(b) == [isInitialized |-> TRUE, businessName |-> b]
\* Settings.findOne(): no document, or the first one
FoundSettings == IF settings = <<>> THEN {} ELSE {1}

SettingsReply(op, status, msg, docs) ==
    [op |-> op, status |-> status, msg |-> msg, settings |-> docs]

SetupPcs == {"setup_create", "setup_settings", "setup_settings_save"}

\* POST /auth/setup : User.countDocuments(), then the field validation,
SetupStart(r, ok, e) ==
    /\ reqs[r].pc = "idle"
    /\ userSeq + InFlight({"setup_create"}) < MaxUsers
    /\ UNCHANGED <<bookVars, pollVars, authVars, importVars>>
    /\ IF users # {}
       THEN /\ resp' = Reply("setup", 400, "setup_already_completed")
            /\ UNCHANGED reqs
       ELSE IF ~ok
       THEN /\ resp' = Reply("setup", 400, "missing_fields")
            /\ UNCHANGED reqs
       ELSE /\ reqs' = [reqs EXCEPT ![r] = [pc |-> "setup_create", email |-> e]]
            /\ UNCHANGED resp

\* then User.create({..., role: 'admin', isSetupComplete: true}); the unique
\* index on email makes the insert of a second user with the same email fail,
SetupCreate(r) ==
    /\ reqs[r].pc = "setup_create"
    /\ UNCHANGED <<bookVars, pollVars, settings, importVars>>
    /\ IF \E x \in users : x.email = reqs[r].email
       THEN /\ resp' = Reply("setup", 500, "server_error")
            /\ reqs' = [reqs EXCEPT ![r] = Idle]
            /\ UNCHANGED <<users, userSeq>>
       ELSE /\ users' = users \cup {SetupUser(UserIdOf(userSeq + 1), reqs[r].email)}
            /\ userSeq' = userSeq + 1
            /\ reqs' = [reqs EXCEPT ![r] = [pc |-> "setup_settings"]]
            /\ UNCHANGED resp

\* then Settings.findOne(),
SetupSettingsFind(r) ==
    /\ reqs[r].pc = "setup_settings"
    /\ UNCHANGED <<bookVars, pollVars, authVars, importVars>>
    /\ IF \E k \in FoundSettings : settings[k].isInitialized
       THEN /\ resp' = Reply("setup", 201, "created")
            /\ reqs' = [reqs EXCEPT ![r] = Idle]
       ELSE /\ reqs' = [reqs EXCEPT ![r] = [pc |-> "setup_settings_save", found |-> FoundSettings]]
            /\ UNCHANGED resp

\* then Settings.create({..., isInitialized: true}) if none was found, or
\* settings.save() of the document found not initialized.
SetupSettingsSave(r) ==
    /\ reqs[r].pc = "setup_settings_save"
    /\ IF reqs[r].found = {}
       THEN settings' = Append(settings, InitializedSettings("b1"))
       ELSE settings' = [k \in DOMAIN settings |->
                           IF k \in reqs[r].found THEN InitializedSettings("b1") ELSE settings[k]]
    /\ resp' = Reply("setup", 201, "created")
    /\ reqs' = [reqs EXCEPT ![r] = Idle]
    /\ UNCHANGED <<bookVars, pollVars, users, userSeq, importVars>>

\* GET /settings : Settings.getSiteSettings(), which starts with findOne(),
GetSettingsFind(r) ==
    /\ reqs[r].pc = "idle"
    /\ UNCHANGED <<bookVars, pollVars, authVars, importVars>>
    /\ IF FoundSettings = {}
       THEN /\ reqs' = [reqs EXCEPT ![r] = [pc |-> "settings_get_create"]]
            /\ UNCHANGED resp
       ELSE /\ resp' = SettingsReply("settings_get", 200, "ok", {settings[1]})
            /\ UNCHANGED reqs

\* and goes on with this.create({}) when findOne() found none; the handler
\* answers with the document it got.
GetSettingsCreate(r) ==
    /\ reqs[r].pc = "settings_get_create"
    /\ settings' = Append(settings, DefaultSettings)
    /\ resp' = SettingsReply("settings_get", 200, "ok", {DefaultSettings})
    /\ reqs' = [reqs EXCEPT ![r] = Idle]
    /\ UNCHANGED <<bookVars, pollVars, users, userSeq, importVars>>

\* PUT /settings : protect, User.findById and the role test, Settings.findOne(),
PutSettingsStart(r, u, b) ==
    /\ reqs[r].pc = "idle"
    /\ UNCHANGED <<bookVars, pollVars, authVars, importVars>>
    /\ IF UserById(u) = {}
       THEN /\ resp' = Reply("settings_put", 401, "user_not_found")
            /\ UNCHANGED reqs
       ELSE IF \E x \in UserById(u) : x.role # "admin"
       THEN /\ resp' = Reply("settings_put", 403, "admin_only")
            /\ UNCHANGED reqs
       ELSE /\ reqs' = [reqs EXCEPT ![r] =
                          [pc |-> "settings_put_save", found |-> FoundSettings, businessName |-> b]]
            /\ UNCHANGED resp

\* then new Settings(req.body) or the fields of the body set on the document
\* found, and settings.save().
PutSettingsSave(r) ==
    /\ reqs[r].pc = "settings_put_save"
    /\ IF reqs[r].found = {}
       THEN settings' = Append(settings, [DefaultSettings EXCEPT
                                            !.businessName = OrElse(reqs[r].businessName, @)])
       ELSE settings' = [k \in DOMAIN settings |->
                           IF k \in reqs[r].found
                           THEN [settings[k] EXCEPT !.businessName = OrElse(reqs[r].businessName, @)]
                           ELSE settings[k]]
    /\ resp' = Reply("settings_put", 200, "ok")
    /\ reqs' = [reqs EXCEPT ![r] = Idle]
    /\ UNCHANGED <<bookVars, pollVars, users, userSeq, importVars>>

\* POST /settings/initialize : protect, no role test, Settings.findOne(),
InitializeStart(r, u, b) ==
    /\ reqs[r].pc = "idle"
    /\ UNCHANGED <<bookVars, pollVars, authVars, importVars>>
    /\ IF UserById(u) = {}
       THEN /\ resp' = Reply("settings_init", 401, "user_not_found")
            /\ UNCHANGED reqs
       ELSE /\ reqs' = [reqs EXCEPT ![r] =
                          [pc |-> "settings_init_save", found |-> FoundSettings,
                           initialized |-> \E k \in FoundSettings : settings[k].isInitialized,
                           businessName |-> b]]
            /\ UNCHANGED resp

\* then new Settings({..., isInitialized: true}), or the business fields and
\* isInitialized set on the document found not initialized, and settings.save().
InitializeSave(r) ==
    /\ reqs[r].pc = "settings_init_save"
    /\ IF reqs[r].found = {}
       THEN settings' = Append(settings, InitializedSettings(reqs[r].businessName))
       ELSE IF ~reqs[r].initialized
       THEN settings' = [k \in DOMAIN settings |->
                           IF k \in reqs[r].found
                           THEN InitializedSettings(reqs[r].businessName) ELSE settings[k]]
       ELSE UNCHANGED settings
    /\ resp' = Reply("settings_init", 200, "ok")
    /\ reqs' = [reqs EXCEPT ![r] = Idle]
    /\ UNCHANGED <<bookVars, pollVars, users, userSeq, importVars>>

\* A store before the first setup, or the store of a set-up site with a
\* second user who has the role staff of the User schema.
InitAuth ==
    /\ \/ users = {} /\ userSeq = 0 /\ settings = <<>>
       \/ /\ users = {SetupUser("u1", "e1"), StaffUser("u2", "e2")}
          /\ userSeq = 2
          /\ settings = <<InitializedSettings("b1")>>
    /\ venues = {} /\ venueSeq = 0 /\ bookings = {} /\ bookingSeq = 0 /\ importSeq = 0
    /\ polls = {} /\ submissions = {} /\ pollSeq = 0 /\ subSeq = 0 /\ now = 0
    /\ reqs = [r \in ReqIds |-> Idle]
    /\ resp = NoResp

NextAuth ==
    \/ \E r \in ReqIds, ok \in BOOLEAN, e \in Emails : SetupStart(r, ok, e)
    \/ \E r \in ReqIds : SetupCreate(r)
    \/ \E r \in ReqIds : SetupSettingsFind(r)
    \/ \E r \in ReqIds : SetupSettingsSave(r)
    \/ \E r \in OneReq : GetSettingsFind(r)
    \/ \E r \in OneReq : GetSettingsCreate(r)
    \/ \E r \in OneReq, u \in Users, b \in Optional({"b2"}) : PutSettingsStart(r, u, b)
    \/ \E r \in OneReq : PutSettingsSave(r)
    \/ \E r \in OneReq, u \in Users : InitializeStart(r, u, "b2")
    \/ \E r \in OneReq : InitializeSave(r)
SpecAuth == InitAuth /\ [][NextAuth]_vars

\* =============================================== the public booking routes
\* Availability requests next to booking requests and the owner's confirm
\* and cancel requests.  The bookings are asked for by two guests, on two
\* days, at the first venue.
AvailInputs ==
    {BaseBook, [BaseBook EXCEPT !.date = DayLen], [BaseBook EXCEPT !.guestName = "g2"]}
AvailDates == {BaseBook.date, DayLen}

NextAvail ==
    \/ \E r \in OneReq, a \in AvailInputs : BookStart(r, a, TRUE)
    \/ \E r \in OneReq : BookCheck(r)
    \/ \E r \in OneReq : BookInsert(r)
    \/ \E i \in BookingIds, n \in Optional(Notes) : AdminConfirm("u1", i, n)
    \/ \E i \in BookingIds : AdminCancel("u1", i, {})
    \/ \E v \in VenueIds, d \in Optional(AvailDates) : Availability(v, d)
SpecAvail == Init /\ [][NextAvail]_vars

\* Public listing, availability and booking requests next to the owners'
\* requests that close, reopen or delete a venue.
MenuInputs == {BaseBook, [BaseBook EXCEPT !.venue = "v2"]}

NextMenu ==
    \/ \E r \in OneReq, a \in MenuInputs : BookStart(r, a, TRUE)
    \/ \E r \in OneReq : BookCheck(r)
    \/ \E r \in OneReq : BookInsert(r)
    \/ \E u \in Users, v \in VenueIds, act \in BOOLEAN : VenueUpdate(u, v, act)
    \/ \E u \in Users, v \in VenueIds : VenueDeleteStart("r2", u, v)
    \/ VenueDeleteBookings("r2")
    \/ VenueDeleteVenue("r2")
    \/ PublicVenues
    \/ \E v \in VenueIds, d \in Optional({BaseBook.date}) : Availability(v, d)
SpecMenu == InitPoll /\ [][NextMenu]_vars

\* ============================================ owner-only operations
\* Every owner-only route with both users as callers, each the owner of one
\* venue; the bookings are made at the first user's venue.  The booking routes
\* and the poll routes share no collection, so a behaviour follows one of the
\* two groups: a booking request runs while no poll was ever created, a
\* poll request while no booking was.
OwnInputs == {BaseBook}
NoPollYet == pollSeq = 0
NoBookingYet == bookingSeq = 0 /\ \A x \in venues : x.isActive

NextOwn ==
    \/ \E r \in OneReq, a \in OwnInputs : NoPollYet /\ BookStart(r, a, TRUE)
    \/ \E r \in OneReq : BookCheck(r)
    \/ \E r \in OneReq : BookInsert(r)
    \/ \E u \in Users, i \in BookingIds : NoPollYet /\ AdminConfirm(u, i, {})
    \/ \E u \in Users, i \in BookingIds : NoPollYet /\ AdminCancel(u, i, {})
    \/ \E u \in Users, i \in BookingIds : NoPollYet /\ AdminDelete(u, i)
    \/ \E u \in Users, v \in VenueIds : NoPollYet /\ VenueUpdate(u, v, FALSE)
    \/ \E r \in OneReq, u \in Users, v \in VenueIds : NoPollYet /\ VenueDeleteStart(r, u, v)
    \/ \E r \in OneReq : VenueDeleteBookings(r)
    \/ \E r \in OneReq : VenueDeleteVenue(r)
    \/ \E u \in Users : NoPollYet /\ ListVenues(u)
    \/ \E u \in Users : NoPollYet /\ ListAllBookings(u)
    \/ \E u \in Users, v \in VenueIds : NoPollYet /\ GetVenue(u, v)
    \/ \E u \in Users, v \in VenueIds : NoPollYet /\ VenueBookings(u, v)
    \/ \E u \in Users, v \in VenueIds : NoPollYet /\ VenueOwnBookings(u, v)
    \/ \E u \in Users, v \in VenueIds : NoPollYet /\ QrCode(u, v)
    \/ \E u \in Users : NoBookingYet /\ CreatePoll(u, MaxTime, {})
    \/ \E u \in Users, i \in PollIds, c \in Optional({TRUE}) :
          NoBookingYet /\ UpdatePoll(u, i, {}, c)
    \/ \E u \in Users, i \in PollIds : NoBookingYet /\ DeletePoll(u, i)
    \/ \E r \in OneReq, i \in PollIds : NoBookingYet /\ SubmitStart(r, i, TRUE, {TRUE})
    \/ \E r \in OneReq : SubmitInsert(r)
    \/ \E u \in Users, i \in PollIds : NoBookingYet /\ GetPoll(u, i)
    \/ \E u \in Users : NoBookingYet /\ ListPolls(u)
    \/ \E u \in Users, i \in PollIds : NoBookingYet /\ Results(u, i)
SpecOwn == InitPoll /\ [][NextOwn]_vars

\* ======================================================== account deletion
Passwords == {"p1", "p2"}
Phrase == "DELETE MY ACCOUNT"
ConfirmTexts == {Phrase, "delete my account"}

\* the password a user chose; user.password is its bcrypt hash
PasswordOf(u) == IF u = "u1" THEN "p1" ELSE "p2"
\* bcrypt.compare(confirmPassword, user.password)
isMatch(pw, u) == pw = {PasswordOf(u)}

\* The confirmation test left out.
confirmTextWrong_never(t) == FALSE

\* confirmText !== 'DELETE MY ACCOUNT'
confirmTextWrong(t) == t # {Phrase}

WipePcs == {"wipe_submissions", "wipe_bookings", "wipe_polls", "wipe_venues",
            "wipe_settings", "wipe_users"}

\* POST /auth/delete-account, behind protect: User.findById, the password
\* test (bcrypt.compare throws on a password left out), the phrase test,
DeleteAccountStart(r, u, pw, t) ==
    /\ reqs[r].pc = "idle"
    /\ UNCHANGED <<bookVars, pollVars, authVars, importVars>>
    /\ IF UserById(u) = {}
       THEN /\ resp' = Reply("delete_account", 404, "user_not_found")
            /\ UNCHANGED reqs
       ELSE IF pw = {}
       THEN /\ resp' = Reply("delete_account", 500, "server_error")
            /\ UNCHANGED reqs
       ELSE IF ~isMatch(pw, u)
       THEN /\ resp' = Reply("delete_account", 401, "incorrect_password")
            /\ UNCHANGED reqs
       ELSE IF confirmTextWrong(t)
       THEN /\ resp' = Reply("delete_account", 400, "confirmation_required")
            /\ UNCHANGED reqs
       ELSE /\ reqs' = [reqs EXCEPT ![r] = [pc |-> "wipe_submissions", user |-> u,
                                            confirmPassword |-> pw, confirmText |-> t]]
            /\ UNCHANGED resp

\* then Submission.deleteMany({}),
WipeSubmissions(r) ==
    /\ reqs[r].pc = "wipe_submissions"
    /\ submissions' = {}
    /\ reqs' = [reqs EXCEPT ![r].pc = "wipe_bookings"]
    /\ UNCHANGED <<bookVars, authVars, polls, pollSeq, subSeq, now, resp, importVars>>

\* Booking.deleteMany({}),
WipeBookings(r) ==
    /\ reqs[r].pc = "wipe_bookings"
    /\ bookings' = {}
    /\ reqs' = [reqs EXCEPT ![r].pc = "wipe_polls"]
    /\ UNCHANGED <<venues, bookingSeq, pollVars, authVars, resp, importVars>>

\* Poll.deleteMany({}),
WipePolls(r) ==
    /\ reqs[r].pc = "wipe_polls"
    /\ polls' = {}
    /\ reqs' = [reqs EXCEPT ![r].pc = "wipe_venues"]
    /\ UNCHANGED <<bookVars, authVars, submissions, pollSeq, subSeq, now, resp, importVars>>

\* BookingVenue.deleteMany({}),
WipeVenues(r) ==
    /\ reqs[r].pc = "wipe_venues"
    /\ venues' = {}
    /\ reqs' = [reqs EXCEPT ![r].pc = "wipe_settings"]
    /\ UNCHANGED <<bookings, bookingSeq, pollVars, authVars, resp, importVars>>

\* Settings.deleteMany({}),
WipeSettings(r) ==
    /\ reqs[r].pc = "wipe_settings"
    /\ settings' = <<>>
    /\ reqs' = [reqs EXCEPT ![r].pc = "wipe_users"]
    /\ UNCHANGED <<bookVars, pollVars, users, userSeq, resp, importVars>>

\* User.deleteMany({}) and the 200 response.
WipeUsers(r) ==
    /\ reqs[r].pc = "wipe_users"
    /\ users' = {}
    /\ resp' = Reply("delete_account", 200, "ok")
    /\ reqs' = [reqs EXCEPT ![r] = Idle]
    /\ UNCHANGED <<bookVars, pollVars, userSeq, settings, importVars>>

\* The delete-account requests of both users, with the password and the
\* phrase right, wrong or left out, next to the requests that fill the
\* store: bookings at both venues, a poll and its submissions.
NextWipe ==
    \/ \E r \in OneReq, a \in MenuInputs : BookStart(r, a, TRUE)
    \/ \E r \in OneReq : BookCheck(r)
    \/ \E r \in OneReq : BookInsert(r)
    \/ \E u \in Users : CreatePoll(u, MaxTime, {})
    \/ \E r \in OneReq, i \in PollIds : SubmitStart(r, i, TRUE, {})
    \/ \E r \in OneReq : SubmitInsert(r)
    \/ \E u \in Users, pw \in Optional(Passwords), t \in Optional(ConfirmTexts) :
          DeleteAccountStart("r2", u, pw, t)
    \/ WipeSubmissions("r2")
    \/ WipeBookings("r2")
    \/ WipePolls("r2")
    \/ WipeVenues("r2")
    \/ WipeSettings("r2")
    \/ WipeUsers("r2")
SpecWipe == InitPoll /\ [][NextWipe]_vars

\* =========================================================== backup export
\* BookingVenue _ids in the order they are handed out
VenueIdTable == <<"v1", "v2", "v3", "v4", "v5", "v6", "v7", "v8", "v9", "v10">>
VenueIdOf(n) == VenueIdTable[n]
VenueRank(v) == CHOOSE n \in DOMAIN VenueIdTable : VenueIdTable[n] = v

\* find() returns the documents of a collection in the order of their _ids
RECURSIVE InIdOrder(_)
InIdOrder(S) ==
    IF S = {} THEN <<>>
    ELSE LET m == CHOOSE x \in S : \A y \in S : x.id <= y.id
         IN <<m>> \o InIdOrder(S \ {m})

RECURSIVE InVenueOrder(_)
InVenueOrder(S) ==
    IF S = {} THEN <<>>
    ELSE LET m == CHOOSE x \in S : \A y \in S : VenueRank(x.id) <= VenueRank(y.id)
         IN <<m>> \o InVenueOrder(S \ {m})

\* The backup object of export-backup for user u over the collections given:
\* the settings document, the user's polls and venues, the bookings of those
\* venues and the submissions of those polls.  A field that a backup file may
\* lack (version, settings, a poll's expireAt) is {} or {x}.
BackupOf(u, st, ps, ss, vs, bs) ==
    LET myPolls == {p \in ps : p.user = u}
        myVenues == {v \in vs : v.user = u}
    IN [version |-> {"1.0"},
        settings |-> IF st = <<>> THEN {} ELSE {st[1]},
        polls |-> InIdOrder({[id |-> p.id, user |-> p.user, expireAt |-> {p.expireAt},
                              consentEnabled |-> p.consentEnabled] : p \in myPolls}),
        submissions |-> InIdOrder({s \in ss : \E p \in myPolls : p.id = s.poll}),
        venues |-> InVenueOrder(myVenues),
        bookings |-> InIdOrder({b \in bs : \E v \in myVenues : v.id = b.venue})]

\* what the export response tells of the backup
Statistics(b) ==
    [totalSettings |-> Cardinality(b.settings), totalPolls |-> Len(b.polls),
     totalVenues |-> Len(b.venues), totalBookings |-> Len(b.bookings),
     totalSubmissions |-> Len(b.submissions)]

\* POST /auth/export-backup
ExportBackup(u) ==
    /\ UNCHANGED <<bookVars, pollVars, authVars, importVars, reqs>>
    /\ resp' = [op |-> "export", status |-> 200, msg |-> "ok",
                statistics |-> Statistics(BackupOf(u, settings, polls, submissions,
                                                   venues, bookings))]

\* =========================================================== backup import
MaxImports == 2       \* import-backup requests accepted in one behaviour

\* The store the imports start from: each user owns a venue with a pending
\* booking and a poll with a submission.
SeedVenues == {[id |-> "v1", user |-> "u1", isActive |-> TRUE],
               [id |-> "v2", user |-> "u2", isActive |-> TRUE]}
SeedBookings == {NewBooking(1, BaseBook), NewBooking(2, [BaseBook EXCEPT !.venue = "v2"])}
SeedPolls == {[id |-> 1, user |-> "u1", expireAt |-> MaxTime, consentEnabled |-> FALSE],
              [id |-> 2, user |-> "u2", expireAt |-> MaxTime, consentEnabled |-> FALSE]}
SeedSubmissions == {[id |-> 1, poll |-> 1, consentAgreed |-> FALSE, expireAt |-> MaxTime],
                    [id |-> 2, poll |-> 2, consentAgreed |-> FALSE, expireAt |-> MaxTime]}
SeedSettings == <<InitializedSettings("b1")>>

\* A backup written by another installation: two polls and two venues, a
\* submission for each poll and a booking for each venue in the other order,
\* and a submission and a booking whose parent is not in the backup.
ForeignBackup ==
    [version |-> {"1.0"},
     settings |-> {InitializedSettings("b2")},
     polls |-> <<[id |-> 7, user |-> "u2", expireAt |-> {MaxTime}, consentEnabled |-> TRUE],
                 [id |-> 8, user |-> "u2", expireAt |-> {0}, consentEnabled |-> FALSE]>>,
     submissions |-> <<[id |-> 1, poll |-> 8, consentAgreed |-> FALSE, expireAt |-> 0],
                       [id |-> 2, poll |-> 9, consentAgreed |-> FALSE, expireAt |-> 0],
                       [id |-> 3, poll |-> 7, consentAgreed |-> TRUE, expireAt |-> MaxTime]>>,
     venues |-> <<[id |-> "w1", user |-> "u2", isActive |-> TRUE],
                  [id |-> "w2", user |-> "u2", isActive |-> FALSE]>>,
     bookings |-> <<[NewBooking(1, BaseBook) EXCEPT !.venue = "w2"],
                    [NewBooking(2, BaseBook) EXCEPT !.venue = "w3"],
                    [NewBooking(3, BaseBook) EXCEPT !.venue = "w1", !.status = "confirmed"]>>]

\* The same file with the expireAt of its second poll lost.
DamagedBackup == [ForeignBackup EXCEPT !.polls[2].expireAt = {}]

\* A file that is no backup.
NoBackup == [ForeignBackup EXCEPT !.version = {}]

\* The exports of the two users taken from the first store.
SeedExports ==
    {BackupOf(u, SeedSettings, SeedPolls, SeedSubmissions, SeedVenues, SeedBookings) :
        u \in Users}

Backups == {ForeignBackup, DamagedBackup, NoBackup} \cup SeedExports

\* Mongoose validates every document before insertMany writes any
pollsValid(b) == \A k \in DOMAIN b.polls : b.polls[k].expireAt # {}

\* pollIdMap with every old id mapped to the first imported poll.
pollIdMap_firstOnly(b, base) == [o \in {b.polls[k].id : k \in DOMAIN b.polls} |-> base + 1]

\* pollIdMap[oldPoll._id] = importedPolls[index]._id, a later index
\* overwriting an earlier one; base is the number of _ids handed out before.
pollIdMap(b, base) ==
    [o \in {b.polls[k].id : k \in DOMAIN b.polls} |->
        base + CHOOSE k \in DOMAIN b.polls :
                 /\ b.polls[k].id = o
                 /\ \A j \in DOMAIN b.polls : b.polls[j].id = o => j <= k]

\* venueIdMap with every venue left under the id it has in the backup.
venueIdMap_keepOld(b, base) == [o \in {b.venues[k].id : k \in DOMAIN b.venues} |-> o]

\* venueIdMap[oldVenue._id] = importedVenues[index]._id
venueIdMap(b, base) ==
    [o \in {b.venues[k].id : k \in DOMAIN b.venues} |->
        VenueIdOf(base + CHOOSE k \in DOMAIN b.venues :
                           /\ b.venues[k].id = o
                           /\ \A j \in DOMAIN b.venues : b.venues[j].id = o => j <= k)]

\* backup.submissions.filter(sub => pollIdMap[sub.poll]).map(...) with the
\* new _ids; backup.bookings likewise
submissionsToImport(b, m, base) ==
    LET kept == SelectSeq(b.submissions, LAMBDA s : s.poll \in DOMAIN m)
    IN {[kept[k] EXCEPT !.id = base + k, !.poll = m[kept[k].poll]] : k \in DOMAIN kept}

bookingsToImport(b, m, base) ==
    LET kept == SelectSeq(b.bookings, LAMBDA x : x.venue \in DOMAIN m)
    IN {[kept[k] EXCEPT !.id = base + k, !.venue = m[kept[k].venue]] : k \in DOMAIN kept}

\* the imported counters of the response
NoneImported == [settings |-> 0, polls |-> 0, submissions |-> 0, venues |-> 0, bookings |-> 0]

\* the await the handler reaches next, or the response
AfterVenues(b) == IF Len(b.bookings) > 0 THEN "imp_bookings" ELSE "done"
AfterPolls(b) == IF Len(b.venues) > 0 THEN "imp_venues" ELSE "done"
AfterPollInsert(b) == IF Len(b.submissions) > 0 THEN "imp_subs" ELSE AfterPolls(b)
AfterSettings(b) == IF Len(b.polls) > 0 THEN "imp_polls" ELSE AfterPolls(b)
AfterDeletes(b) == IF b.settings # {} THEN "imp_settings" ELSE AfterSettings(b)

\* The request goes on to its next await with the locals l, or answers 200.
ImportGoto(r, pc, l) ==
    IF pc = "done"
    THEN /\ resp' = [op |-> "import", status |-> 200, msg |-> "ok", imported |-> l.imported]
         /\ reqs' = [reqs EXCEPT ![r] = Idle]
    ELSE /\ reqs' = [reqs EXCEPT ![r] = [l EXCEPT !.pc = pc]]
         /\ UNCHANGED resp

\* the catch block: 500
ImportFail(r) ==
    /\ resp' = [op |-> "import", status |-> 500, msg |-> "import_failed", imported |-> NoneImported]
    /\ reqs' = [reqs EXCEPT ![r] = Idle]

ImportPcs == {"imp_del_polls", "imp_del_venues", "imp_find_venues", "imp_del_bookings",
              "imp_find_polls", "imp_del_subs", "imp_settings", "imp_polls", "imp_subs",
              "imp_venues", "imp_bookings"}

\* POST /auth/import-backup, behind protect: the format test.  The locals are
\* the body, the counters of the response and the id maps; owned lists the
\* caller's documents when the request arrived.
ImportStart(r, u, b, replace) ==
    /\ reqs[r].pc = "idle"
    /\ importSeq < MaxImports
    /\ venueSeq + Len(b.venues) <= Len(VenueIdTable)
    /\ UNCHANGED <<bookVars, pollVars, authVars, venueSeq>>
    /\ IF b.version = {}
       THEN /\ resp' = [op |-> "import", status |-> 400, msg |-> "invalid_backup",
                        imported |-> NoneImported]
            /\ UNCHANGED <<reqs, importSeq>>
       ELSE /\ importSeq' = importSeq + 1
            /\ ImportGoto(r, IF replace THEN "imp_del_polls" ELSE AfterDeletes(b),
                  [pc |-> "idle", user |-> u, backup |-> b, replaceExisting |-> replace,
                   imported |-> NoneImported, venueIds |-> {}, pollIds |-> {},
                   pollIdMap |-> <<>>, venueIdMap |-> <<>>,
                   owned |-> [polls |-> {p \in polls : p.user = u},
                              venues |-> {v \in venues : v.user = u},
                              submissions |-> {s \in submissions :
                                                 \E p \in polls : p.user = u /\ p.id = s.poll},
                              bookings |-> {x \in bookings :
                                              \E v \in venues : v.user = u /\ v.id = x.venue}]])

\* replaceExisting: Poll.deleteMany({user}),
ImportDeletePolls(r) ==
    /\ reqs[r].pc = "imp_del_polls"
    /\ polls' = {p \in polls : p.user # reqs[r].user}
    /\ reqs' = [reqs EXCEPT ![r].pc = "imp_del_venues"]
    /\ UNCHANGED <<bookVars, authVars, importVars, submissions, pollSeq, subSeq, now, resp>>

\* BookingVenue.deleteMany({user}),
ImportDeleteVenues(r) ==
    /\ reqs[r].pc = "imp_del_venues"
    /\ venues' = {v \in venues : v.user # reqs[r].user}
    /\ reqs' = [reqs EXCEPT ![r].pc = "imp_find_venues"]
    /\ UNCHANGED <<bookings, bookingSeq, pollVars, authVars, importVars, resp>>

\* BookingVenue.find({user}) for the ids of the bookings to delete,
ImportFindVenues(r) ==
    /\ reqs[r].pc = "imp_find_venues"
    /\ reqs' = [reqs EXCEPT ![r].pc = "imp_del_bookings",
                            ![r].venueIds = VenuesOfUser(reqs[r].user)]
    /\ UNCHANGED <<bookVars, pollVars, authVars, importVars, resp>>

\* Booking.deleteMany({venue: {$in: venueIds}}),
ImportDeleteBookings(r) ==
    /\ reqs[r].pc = "imp_del_bookings"
    /\ bookings' = {x \in bookings : x.venue \notin reqs[r].venueIds}
    /\ reqs' = [reqs EXCEPT ![r].pc = "imp_find_polls"]
    /\ UNCHANGED <<venues, bookingSeq, pollVars, authVars, importVars, resp>>

\* Poll.find({user}) for the ids of the submissions to delete,
ImportFindPolls(r) ==
    /\ reqs[r].pc = "imp_find_polls"
    /\ reqs' = [reqs EXCEPT ![r].pc = "imp_del_subs",
                            ![r].pollIds = {p.id : p \in {x \in polls : x.user = reqs[r].user}}]
    /\ UNCHANGED <<bookVars, pollVars, authVars, importVars, resp>>

\* Submission.deleteMany({poll: {$in: pollIds}}).
ImportDeleteSubmissions(r) ==
    /\ reqs[r].pc = "imp_del_subs"
    /\ submissions' = {s \in submissions : s.poll \notin reqs[r].pollIds}
    /\ ImportGoto(r, AfterDeletes(reqs[r].backup), reqs[r])
    /\ UNCHANGED <<bookVars, authVars, importVars, polls, pollSeq, subSeq, now>>

\* Settings.findOneAndUpdate({}, settingsData, {upsert: true})
ImportSettings(r) ==
    /\ reqs[r].pc = "imp_settings"
    /\ LET doc == CHOOSE x \in reqs[r].backup.settings : TRUE IN
       settings' = IF settings = <<>> THEN <<doc>> ELSE [settings EXCEPT ![1] = doc]
    /\ ImportGoto(r, AfterSettings(reqs[r].backup), [reqs[r] EXCEPT !.imported.settings = 1])
    /\ UNCHANGED <<bookVars, pollVars, importVars, users, userSeq>>

\* Poll.insertMany(pollsToImport) with user: userId, and the pollIdMap
ImportPolls(r) ==
    /\ reqs[r].pc = "imp_polls"
    /\ UNCHANGED <<bookVars, authVars, importVars, submissions, subSeq, now>>
    /\ LET b == reqs[r].backup IN
       IF ~pollsValid(b)
       THEN /\ ImportFail(r)
            /\ UNCHANGED <<polls, pollSeq>>
       ELSE /\ polls' = polls \cup
                  {[id |-> pollSeq + k, user |-> reqs[r].user,
                    expireAt |-> OrElse(b.polls[k].expireAt, 0),
                    consentEnabled |-> b.polls[k].consentEnabled] : k \in DOMAIN b.polls}
            /\ pollSeq' = pollSeq + Len(b.polls)
            /\ ImportGoto(r, AfterPollInsert(b),
                  [reqs[r] EXCEPT !.imported.polls = Len(b.polls),
                                  !.pollIdMap = pollIdMap(b, pollSeq)])

\* Submission.insertMany(submissionsToImport)
ImportSubmissions(r) ==
    /\ reqs[r].pc = "imp_subs"
    /\ LET new == submissionsToImport(reqs[r].backup, reqs[r].pollIdMap, subSeq) IN
       /\ submissions' = submissions \cup new
       /\ subSeq' = subSeq + Cardinality(new)
       /\ ImportGoto(r, AfterPolls(reqs[r].backup),
             [reqs[r] EXCEPT !.imported.submissions = Cardinality(new)])
    /\ UNCHANGED <<bookVars, authVars, importVars, polls, pollSeq, now>>

\* BookingVenue.insertMany(venuesToImport) with user: userId, and the venueIdMap
ImportVenues(r) ==
    /\ reqs[r].pc = "imp_venues"
    /\ LET b == reqs[r].backup IN
       /\ venues' = venues \cup
             {[id |-> VenueIdOf(venueSeq + k), user |-> reqs[r].user,
               isActive |-> b.venues[k].isActive] : k \in DOMAIN b.venues}
       /\ venueSeq' = venueSeq + Len(b.venues)
       /\ ImportGoto(r, AfterVenues(b),
             [reqs[r] EXCEPT !.imported.venues = Len(b.venues),
                             !.venueIdMap = venueIdMap(b, venueSeq)])
    /\ UNCHANGED <<bookings, bookingSeq, pollVars, authVars, importSeq>>

\* Booking.insertMany(bookingsToImport) and the 200 response.
ImportBookings(r) ==
    /\ reqs[r].pc = "imp_bookings"
    /\ LET new == bookingsToImport(reqs[r].backup, reqs[r].venueIdMap, bookingSeq) IN
       /\ bookings' = bookings \cup new
       /\ bookingSeq' = bookingSeq + Cardinality(new)
       /\ ImportGoto(r, "done", [reqs[r] EXCEPT !.imported.bookings = Cardinality(new)])
    /\ UNCHANGED <<venues, pollVars, authVars, importVars>>

InitImport ==
    /\ users = {SetupUser("u1", "e1"), RegisteredUser("u2", "e2")}
    /\ userSeq = 2
    /\ settings = SeedSettings
    /\ venues = SeedVenues /\ venueSeq = 2
    /\ bookings = SeedBookings /\ bookingSeq = 2
    /\ polls = SeedPolls /\ pollSeq = 2
    /\ submissions = SeedSubmissions /\ subSeq = 2
    /\ now = 0
    /\ importSeq = 0
    /\ reqs = [r \in ReqIds |-> Idle]
    /\ resp = NoResp

\* Export and import requests of both users, one import in flight at a time.
NextImport ==
    \/ \E u \in Users : AllIdle /\ ExportBackup(u)
    \/ \E u \in Users, b \in Backups, replace \in BOOLEAN : ImportStart("r1", u, b, replace)
    \/ ImportDeletePolls("r1")
    \/ ImportDeleteVenues("r1")
    \/ ImportFindVenues("r1")
    \/ ImportDeleteBookings("r1")
    \/ ImportFindPolls("r1")
    \/ ImportDeleteSubmissions("r1")
    \/ ImportSettings("r1")
    \/ ImportPolls("r1")
    \/ ImportSubmissions("r1")
    \/ ImportVenues("r1")
    \/ ImportBookings("r1")
SpecImport == InitImport /\ [][NextImport]_vars

\* ============================================================ access guard
\* The Authorization header of a request: left out, or a scheme and a token
\* that passes jwt.verify or not and carries the id of a user.
Headers ==
    {{}} \cup {{[bearer |-> FALSE, verifies |-> TRUE, id |-> "u1"]},
               {[bearer |-> TRUE, verifies |-> FALSE, id |-> "u1"]}}
         \cup {{[bearer |-> TRUE, verifies |-> TRUE, id |-> u]} : u \in Users}

Send401(msg) == [kind |-> "send", status |-> 401, msg |-> msg]
CallNext(u) == [kind |-> "next", user |-> u]

\* protect without the test of the user found.
protect_noUserTest(h) ==
    IF h = {} \/ \E x \in h : ~x.bearer
    THEN <<Send401("no_token")>>
    ELSE LET x == CHOOSE y \in h : TRUE IN
         IF ~x.verifies THEN <<Send401("token_failed")>> ELSE <<CallNext(x.id)>>

\* protect: what the middleware does for a header, in the order it does it.
\* Inside the Bearer block every path but next() returns; after next() the
\* token is set, so the test of a missing token that follows sends nothing.
protect(h) ==
    IF h = {} \/ \E x \in h : ~x.bearer
    THEN <<Send401("no_token")>>
    ELSE LET x == CHOOSE y \in h : TRUE IN
         IF ~x.verifies THEN <<Send401("token_failed")>>
         ELSE IF UserById(x.id) = {} THEN <<Send401("user_not_found")>>
         ELSE <<CallNext(x.id)>>

\* A route behind protect: the handler runs for the user of a next() call,
\* and a 401 sent by the guard is the response otherwise.
Protected(h, Handler(_)) ==
    LET e == protect(h) IN
    IF \E k \in DOMAIN e : e[k].kind = "next"
    THEN Handler(e[CHOOSE k \in DOMAIN e : e[k].kind = "next"].user)
    ELSE /\ resp' = Reply("protect", e[1].status, e[1].msg)
         /\ UNCHANGED <<bookVars, pollVars, authVars, reqs, importVars>>

\* Every route behind protect, called with the header h.
GuardedRoutes(h) ==
    \/ NoBookingYet /\ Protected(h, LAMBDA u : CreatePoll(u, MaxTime, {}))
    \/ \E i \in PollIds :
          NoBookingYet /\ Protected(h, LAMBDA u : UpdatePoll(u, i, {}, {TRUE}))
    \/ \E i \in PollIds : NoBookingYet /\ Protected(h, LAMBDA u : DeletePoll(u, i))
    \/ \E i \in PollIds : NoBookingYet /\ Protected(h, LAMBDA u : GetPoll(u, i))
    \/ NoBookingYet /\ Protected(h, LAMBDA u : ListPolls(u))
    \/ \E i \in PollIds : NoBookingYet /\ Protected(h, LAMBDA u : Results(u, i))
    \/ NoPollYet /\ Protected(h, LAMBDA u : ListVenues(u))
    \/ \E v \in VenueIds : NoPollYet /\ Protected(h, LAMBDA u : GetVenue(u, v))
    \/ \E v \in VenueIds :
          NoPollYet /\ Protected(h, LAMBDA u : VenueUpdate(u, v, FALSE))
    \/ \E v \in VenueIds :
          NoPollYet /\ Protected(h, LAMBDA u : VenueDeleteStart("r1", u, v))
    \/ \E v \in VenueIds :
          NoPollYet /\ Protected(h, LAMBDA u : VenueOwnBookings(u, v))
    \/ \E v \in VenueIds : NoPollYet /\ Protected(h, LAMBDA u : QrCode(u, v))
    \/ \E v \in VenueIds :
          NoPollYet /\ Protected(h, LAMBDA u : VenueBookings(u, v))
    \/ NoPollYet /\ Protected(h, LAMBDA u : ListAllBookings(u))
    \/ \E i \in BookingIds :
          NoPollYet /\ Protected(h, LAMBDA u : AdminConfirm(u, i, {}))
    \/ \E i \in BookingIds :
          NoPollYet /\ Protected(h, LAMBDA u : AdminCancel(u, i, {}))
    \/ \E i \in BookingIds : NoPollYet /\ Protected(h, LAMBDA u : AdminDelete(u, i))
    \/ Protected(h, LAMBDA u : PutSettingsStart("r1", u, {"b2"}))
    \/ Protected(h, LAMBDA u : InitializeStart("r1", u, "b2"))
    \/ Protected(h, LAMBDA u : ExportBackup(u))
    \/ Protected(h, LAMBDA u : ImportStart("r1", u, NoBackup, FALSE))
    \/ Protected(h, LAMBDA u : DeleteAccountStart("r2", u, {PasswordOf(u)}, {Phrase}))

\* The guarded routes with every header, handled one at a time, and the
\* later store steps of their handlers.
NextGuard ==
    \/ \E h \in Headers : AllIdle /\ GuardedRoutes(h)
    \/ VenueDeleteBookings("r1")
    \/ VenueDeleteVenue("r1")
    \/ PutSettingsSave("r1")
    \/ InitializeSave("r1")
    \/ WipeSubmissions("r2")
    \/ WipeBookings("r2")
    \/ WipePolls("r2")
    \/ WipeVenues("r2")
    \/ WipeSettings("r2")
    \/ WipeUsers("r2")
SpecGuard == Init /\ [][NextGuard]_vars

\* Poll create, owner update and public submit handled one at a time, with
\* the clock and the expiry task.
NextExpiry ==
    \/ \E u \in PollOwners, e \in ExpireTimes, c \in Optional(BOOLEAN) :
          AllIdle /\ CreatePoll(u, e, c)
    \/ \E u \in Users, i \in PollIds, e \in Optional(ExpireTimes) :
          AllIdle /\ UpdatePoll(u, i, e, {})
    \/ \E r \in OneReq, i \in PollIds, ok \in BOOLEAN, ca \in Optional(BOOLEAN) :
          SubmitStart(r, i, ok, ca)
    \/ \E r \in OneReq : SubmitInsert(r)
    \/ Tick
    \/ \E p \in polls : SweepPoll(p)
    \/ \E s \in submissions : SweepSubmission(s)
SpecExpiry == InitPoll /\ [][NextExpiry]_vars

\* ========================================================== setup lifecycle
\* The answer of check-setup taken from the Settings document.
setupComplete_fromSettings == \E k \in DOMAIN settings : settings[k].isInitialized

\* userCount > 0 with userCount = await User.countDocuments()
setupComplete == Cardinality(users) > 0

\* GET /auth/check-setup
CheckSetup ==
    /\ UNCHANGED <<bookVars, pollVars, authVars, importVars, reqs>>
    /\ resp' = [op |-> "check_setup", status |-> 200, msg |-> "ok",
                isSetupComplete |-> setupComplete]

\* A store before the first setup, or after it.
InitLife ==
    /\ \/ users = {} /\ userSeq = 0 /\ settings = <<>>
       \/ users = {SetupUser("u1", "e1")} /\ userSeq = 1 /\ settings = <<InitializedSettings("b1")>>
    /\ venues = {} /\ venueSeq = 0 /\ bookings = {} /\ bookingSeq = 0 /\ importSeq = 0
    /\ polls = {} /\ submissions = {} /\ pollSeq = 0 /\ subSeq = 0 /\ now = 0
    /\ reqs = [r \in ReqIds |-> Idle]
    /\ resp = NoResp

\* check-setup, one setup request at a time, the settings read and the
\* delete-account requests of the users.
NextLife ==
    \/ CheckSetup
    \/ \E ok \in BOOLEAN, e \in Emails : SetupStart("r1", ok, e)
    \/ SetupCreate("r1")
    \/ SetupSettingsFind("r1")
    \/ SetupSettingsSave("r1")
    \/ \E u \in Users, pw \in Passwords : DeleteAccountStart("r2", u, {pw}, {Phrase})
    \/ WipeSubmissions("r2")
    \/ WipeBookings("r2")
    \/ WipePolls("r2")
    \/ WipeVenues("r2")
    \/ WipeSettings("r2")
    \/ WipeUsers("r2")
SpecLife == InitLife /\ [][NextLife]_vars

\* ----------------------------------------------------------------- typing
TypeOK ==
    /\ venues \subseteq [id : {VenueIdOf(n) : n \in 1..venueSeq}, user : Users, isActive : BOOLEAN]
    /\ venueSeq \in 0..Len(VenueIdTable)
    /\ importSeq \in 0..MaxImports
    /\ bookingSeq \in Nat
    /\ \A b \in bookings : b.id \in 1..bookingSeq /\ b.status \in {"pending", "confirmed", "cancelled", "completed"}
    /\ \A b \in bookings : b.guestName \in Guests /\ b.adminNotes \in Notes \cup {""}
    /\ \A r \in ReqIds : reqs[r].pc \in {"idle", "book_check", "book_insert", "submit_insert",
                                          "venue_delete_bookings", "venue_delete_venue",
                                          "settings_get_create", "settings_put_save",
                                          "settings_init_save"}
                                           \cup SetupPcs \cup WipePcs \cup ImportPcs
    /\ users \subseteq [id : {UserIdOf(n) : n \in 1..userSeq}, email : Emails,
                        role : {"admin", "manager", "staff"}, isSetupComplete : BOOLEAN]
    /\ userSeq \in 0..MaxUsers
    /\ \A k \in DOMAIN settings : settings[k].isInitialized \in BOOLEAN
    /\ polls \subseteq [id : 1..pollSeq, user : Users, expireAt : ExpireTimes, consentEnabled : BOOLEAN]
    /\ submissions \subseteq [id : 1..subSeq, poll : 1..pollSeq, expireAt : ExpireTimes, consentAgreed : BOOLEAN]
    /\ now \in 0..MaxTime

\* ============================================================= properties
DayBucket(d) == d \div DayLen

\* The tuple a booking, or a booking request body, occupies.
TupleOf(b) == <<b.venue, b.tableNumber, DayBucket(b.date),
                b.timeSlot.startTime, b.timeSlot.endTime>>

ActiveFor(k) == {b \in bookings : TupleOf(b) = k /\ b.status \in {"pending", "confirmed"}}

Tuples == {TupleOf(x) : x \in BookInputs}

\* C1: with public booking requests interleaved at their lookup and insert
\* steps, no reachable state holds more than one pending or confirmed Booking
\* for one (venue, tableNumber, day, startTime, endTime) tuple.
C1_ExclusiveUnderRace == \A k \in Tuples : Cardinality(ActiveFor(k)) <= 1

\* C2: with requests handled one at a time (book, confirm, cancel, delete in
\* any order), two different Bookings that are both pending or confirmed
\* never occupy the same tuple.
C2_ExclusiveSequential ==
    \A b1 \in bookings, b2 \in bookings :
        ( /\ b1.status \in {"pending", "confirmed"}
          /\ b2.status \in {"pending", "confirmed"}
          /\ TupleOf(b1) = TupleOf(b2) ) => b1.id = b2.id

\* C3: a booking request whose lookup runs while a pending or confirmed
\* Booking occupies its tuple is answered 400 with the conflict message,
\* creates no Booking and leaves every Booking unchanged.
C3_ConflictRejected ==
    [][ \A r \in ReqIds :
          ( /\ reqs[r].pc = "book_check"
            /\ reqs'[r] # reqs[r]
            /\ ActiveFor(TupleOf(reqs[r].body)) # {} )
          => ( /\ resp' = Reply("book", 400, "already_booked")
               /\ reqs'[r] = Idle
               /\ bookings' = bookings
               /\ bookingSeq' = bookingSeq ) ]_vars

\* a conflict response was sent while the occupying booking is in the store
C3_Witness ==
    /\ resp = Reply("book", 400, "already_booked")
    /\ \E b \in bookings : b.status \in {"pending", "confirmed"}

\* C4: a booking request whose lookup runs while no Booking of its tuple is
\* pending or confirmed (all are cancelled, completed or deleted) is not
\* rejected, and ends with 201 and exactly one new Booking, pending, for the
\* requested tuple, every other Booking left as it was.
C4_TerminalDoNotBlock ==
    [][ \A r \in ReqIds :
          /\ ( /\ reqs[r].pc = "book_check"
               /\ reqs'[r] # reqs[r]
               /\ ActiveFor(TupleOf(reqs[r].body)) = {} )
             => reqs'[r] = [pc |-> "book_insert", body |-> reqs[r].body]
          /\ ( /\ reqs[r].pc = "book_insert"
               /\ reqs'[r] # reqs[r] )
             => ( /\ resp' = Reply("book", 201, "created")
                  /\ bookings \subseteq bookings'
                  /\ \E b \in bookings' \ bookings :
                        /\ bookings' \ bookings = {b}
                        /\ b.status = "pending"
                        /\ TupleOf(b) = TupleOf(reqs[r].body)
                        /\ \A c \in bookings : c.id # b.id ) ]_vars

\* book, confirm, cancel, book again: a cancelled booking that had been
\* confirmed, and a later pending booking on the same tuple, just created
C4_Witness ==
    /\ resp = Reply("book", 201, "created")
    /\ \E b \in bookings, c \in bookings :
          /\ b.status = "cancelled" /\ b.confirmedAt
          /\ c.status = "pending" /\ c.id > b.id
          /\ TupleOf(c) = TupleOf(b)
          /\ Cardinality(ActiveFor(TupleOf(b))) = 1

\* C5: the status of a stored Booking changes only pending -> confirmed,
\* pending -> cancelled or confirmed -> cancelled; in particular never out of
\* cancelled or completed.
C5_StatusMachine ==
    [][ \A b \in bookings : \A c \in bookings' :
          (c.id = b.id /\ c.status # b.status)
          => <<b.status, c.status>> \in {<<"pending", "confirmed">>,
                                         <<"pending", "cancelled">>,
                                         <<"confirmed", "cancelled">>} ]_vars

\* C6: a Submission is inserted with the expireAt its parent Poll has in the
\* store at the moment of the insert.
C6_ExpiryCopiedAtInsert ==
    [][ \A s \in submissions' \ submissions : \A p \in polls' :
          p.id = s.poll => s.expireAt = p.expireAt ]_vars

ReadOps == {"public_poll", "poll_get", "poll_list", "results", "public_list"}

\* C7: no read path returns a Poll whose expireAt the server clock had
\* passed when the response was made (nor, with it, its Submissions).
C7_NoReadAfterExpiry ==
    resp.op \in ReadOps => \A p \in resp.polls : ~(p.expireAt < resp.at)

\* C8: a submit request gets past its poll lookup towards the insert only if
\* the Poll is in the store and its expireAt has not passed; for a missing
\* or expired Poll it is turned away and nothing is created.
C8_NoSubmitToMissingOrExpired ==
    [][ \A r \in ReqIds :
          (reqs[r].pc = "idle" /\ reqs'[r].pc = "submit_insert")
          => \E p \in polls : p.id = reqs'[r].poll.id /\ ~(p.expireAt < now) ]_vars

\* C9: every stored Submission has its Poll in the store, unless the
\* Submission is itself due for the expiry task.
C9_NoOrphanSubmission ==
    \A s \in submissions : (\E p \in polls : p.id = s.poll) \/ s.expireAt < now

\* C10: the submit handler works on the Poll as stored at its lookup, and
\* when that Poll has consentEnabled false the Submission it inserts has
\* consentAgreed false, whatever the client sent.
C10_ConsentForced ==
    [][ \A r \in ReqIds :
          /\ (reqs[r].pc = "idle" /\ reqs'[r].pc = "submit_insert")
             => \E p \in polls : PollSeen(p) = reqs'[r].poll
          /\ (reqs[r].pc = "submit_insert" /\ reqs'[r] # reqs[r]
                /\ ~reqs[r].poll.consentEnabled)
             => /\ submissions' # submissions
                /\ \A s \in submissions' \ submissions : s.consentAgreed = FALSE ]_vars

\* a client sent consentAgreed true to a poll without consent, and the
\* submission was stored with consentAgreed false
C10_Witness ==
    /\ resp.op = "submit" /\ resp.status = 201
    /\ resp.sent = {TRUE}
    /\ resp.consentAgreed = FALSE
    /\ \E s \in submissions :
          /\ s.id = subSeq /\ s.consentAgreed = FALSE
          /\ \E p \in polls : p.id = s.poll /\ ~p.consentEnabled

\* C11: a submit request whose lookup finds a Poll with consentEnabled true
\* and whose consentAgreed is left out or false is answered 400 and nothing is
\* stored; and a Submission inserted by a request whose lookup found
\* consentEnabled true has consentAgreed true.
C11_ConsentGate ==
    [][ (reqs' # reqs \/ resp'.op = "submit") =>
        ( /\ \A r \in ReqIds, i \in PollIds, ca \in Optional(BOOLEAN) :
               ( /\ ca # {TRUE}
                 /\ \E p \in PollById(i) : p.consentEnabled
                 /\ SubmitStart(r, i, TRUE, ca) )
               => ( /\ resp' = Reply("submit", 400, "consent_required")
                    /\ reqs' = reqs
                    /\ submissions' = submissions /\ subSeq' = subSeq )
          /\ \A r \in ReqIds :
               ( /\ reqs[r].pc = "submit_insert"
                 /\ reqs'[r] # reqs[r]
                 /\ reqs[r].poll.consentEnabled )
               => ( /\ submissions' # submissions
                    /\ \A s \in submissions' \ submissions : s.consentAgreed = TRUE ) ) ]_vars

\* a submit without consent was turned away from a poll that asks for it,
\* and nothing is stored
C11_Witness ==
    /\ resp = Reply("submit", 400, "consent_required")
    /\ \E p \in polls : p.consentEnabled
    /\ submissions = {}

\* C11 as stated: every stored Submission of a Poll that has consentEnabled
\* true has consentAgreed true.
C11_StoredConsentTrue ==
    \A s \in submissions : \A p \in polls :
        (p.id = s.poll /\ p.consentEnabled) => s.consentAgreed = TRUE

\* a request by caller u on a booking of a venue that another user owns
ForeignBooking(u, i) ==
    \E b \in BookingById(i) : \E x \in VenueById(b.venue) : x.user # u

\* the step answers 403 and no stored Poll, Submission, Venue or Booking changes
Denied ==
    /\ resp'.status = 403
    /\ polls' = polls /\ submissions' = submissions
    /\ venues' = venues /\ bookings' = bookings

\* C12: an update or delete of a Poll, an update or delete of a Venue, a
\* confirm, cancel or delete of a Booking, asked by a user other than the
\* owner of the Poll, of the Venue, or of the Booking's Venue, is answered
\* 403 and changes no stored Poll, Submission, Venue or Booking: a step is
\* either such a refusal, with no request left in flight by it, or it is not
\* the step of any of these requests made by a user other than the owner.
C12_NonOwnerMutationDenied ==
    [][ \/ Denied /\ reqs' = reqs
        \/ /\ resp'.op = "poll_update" =>
                (\A u \in Users, i \in PollIds, e \in Optional(ExpireTimes), c \in Optional(BOOLEAN) :
                   (\E p \in PollById(i) : p.user # u) => ~UpdatePoll(u, i, e, c))
           /\ resp'.op = "poll_delete" =>
                (\A u \in Users, i \in PollIds :
                   (\E p \in PollById(i) : p.user # u) => ~DeletePoll(u, i))
           /\ resp'.op = "venue_update" =>
                (\A u \in Users, v \in VenueIds, act \in BOOLEAN :
                   (\E x \in VenueById(v) : x.user # u) => ~VenueUpdate(u, v, act))
           /\ (resp'.op = "venue_delete" \/ reqs' # reqs) =>
                (\A u \in Users, v \in VenueIds, r \in ReqIds :
                   (\E x \in VenueById(v) : x.user # u) => ~VenueDeleteStart(r, u, v))
           /\ resp'.op = "confirm" =>
                (\A u \in Users, i \in BookingIds, n \in Optional(Notes) :
                   ForeignBooking(u, i) => ~AdminConfirm(u, i, n))
           /\ resp'.op = "cancel" =>
                (\A u \in Users, i \in BookingIds, n \in Optional(Notes) :
                   ForeignBooking(u, i) => ~AdminCancel(u, i, n))
           /\ resp'.op = "delete" =>
                (\A u \in Users, i \in BookingIds :
                   ForeignBooking(u, i) => ~AdminDelete(u, i)) ]_vars

\* a booking request of another user was answered 403 and the booking is
\* still in the store, unconfirmed
C12_Witness ==
    /\ resp = Reply("confirm", 403, "not_authorized")
    /\ \E b \in bookings : b.status = "pending"

\* C13: GET /polls, GET /booking-venues and GET /bookings/admin/all answer
\* with exactly the caller's Polls, the caller's Venues, and the Bookings of
\* the caller's Venues: a document is listed if and only if it is in the
\* store and the caller owns it (for a Booking, owns its Venue).
C13_ListsOnlyOwn ==
    [][ /\ resp'.op = "poll_list" =>
             (\A u \in Users : ListPolls(u) =>
                 \A i \in PollIds :
                    (\E w \in resp'.polls : w.id = i)
                    <=> (\E q \in polls : q.id = i /\ q.user = u))
        /\ resp'.op = "venue_list" =>
             (\A u \in Users : ListVenues(u) =>
                 \A v \in VenueIds :
                    v \in resp'.items <=> (\E x \in venues : x.id = v /\ x.user = u))
        /\ resp'.op = "booking_list" =>
             (\A u \in Users : ListAllBookings(u) =>
                 \A i \in BookingIds :
                    i \in resp'.items
                    <=> (\E b \in bookings : \E x \in venues :
                            b.id = i /\ x.id = b.venue /\ x.user = u)) ]_vars

\* the second user listed the venues and got only the own one, while the
\* first user's venue and its bookings are in the store
C13_Witness ==
    /\ resp = ListReply("venue_list", 200, "ok", {"v2"})
    /\ \E x \in venues : x.id = "v1"
    /\ \E b \in bookings : b.venue = "v1"

\* the answer of an owner-only request on the document named by an id:
\* 404 if the document is absent, and 403 only if it is present and foreign
ExistenceFirst(absent, foreign) ==
    /\ absent => resp'.status = 404
    /\ resp'.status = 403 => (~absent /\ foreign)

ForeignPoll(u, i) == \E q \in PollById(i) : q.user # u
ForeignVenue(u, v) == \E x \in VenueById(v) : x.user # u

\* C14: every owner-only request on a Poll, Venue or Booking answers 404 when
\* the named document is not in the store, whoever the caller is, and answers
\* 403 only when the document is in the store and owned by another user: a
\* step either has that answer for caller u and id i, or is not the step of
\* the request by u on i.
C14_ExistenceBeforeOwnership ==
    [][ /\ resp'.op = "poll_get" =>
             (\A u \in Users, i \in PollIds :
                 ExistenceFirst(PollById(i) = {}, ForeignPoll(u, i)) \/ ~GetPoll(u, i))
        /\ resp'.op = "poll_update" =>
             (\A u \in Users, i \in PollIds, e \in Optional(ExpireTimes), c \in Optional(BOOLEAN) :
                 ExistenceFirst(PollById(i) = {}, ForeignPoll(u, i)) \/ ~UpdatePoll(u, i, e, c))
        /\ resp'.op = "poll_delete" =>
             (\A u \in Users, i \in PollIds :
                 ExistenceFirst(PollById(i) = {}, ForeignPoll(u, i)) \/ ~DeletePoll(u, i))
        /\ resp'.op = "results" =>
             (\A u \in Users, i \in PollIds :
                 ExistenceFirst(PollById(i) = {}, ForeignPoll(u, i)) \/ ~Results(u, i))
        /\ resp'.op = "venue_get" =>
             (\A u \in Users, v \in VenueIds :
                 ExistenceFirst(VenueById(v) = {}, ForeignVenue(u, v)) \/ ~GetVenue(u, v))
        /\ resp'.op = "venue_update" =>
             (\A u \in Users, v \in VenueIds, act \in BOOLEAN :
                 ExistenceFirst(VenueById(v) = {}, ForeignVenue(u, v)) \/ ~VenueUpdate(u, v, act))
        /\ resp'.op = "venue_delete" =>
             (\A u \in Users, v \in VenueIds, r \in ReqIds :
                 \/ ExistenceFirst(VenueById(v) = {}, ForeignVenue(u, v))
                 \/ ~(VenueDeleteStart(r, u, v) /\ reqs' = reqs))
        /\ reqs' # reqs =>
             (\A u \in Users, v \in VenueIds, r \in ReqIds :
                 VenueDeleteStart(r, u, v) => VenueById(v) # {})
        /\ resp'.op = "venue_bookings" =>
             (\A u \in Users, v \in VenueIds :
                 ExistenceFirst(VenueById(v) = {}, ForeignVenue(u, v)) \/ ~VenueBookings(u, v))
        /\ resp'.op = "venue_own_bookings" =>
             (\A u \in Users, v \in VenueIds :
                 ExistenceFirst(VenueById(v) = {}, ForeignVenue(u, v)) \/ ~VenueOwnBookings(u, v))
        /\ resp'.op = "qrcode" =>
             (\A u \in Users, v \in VenueIds :
                 ExistenceFirst(VenueById(v) = {}, ForeignVenue(u, v)) \/ ~QrCode(u, v))
        /\ resp'.op = "confirm" =>
             (\A u \in Users, i \in BookingIds, n \in Optional(Notes) :
                 ExistenceFirst(BookingById(i) = {}, ForeignBooking(u, i)) \/ ~AdminConfirm(u, i, n))
        /\ resp'.op = "cancel" =>
             (\A u \in Users, i \in BookingIds, n \in Optional(Notes) :
                 ExistenceFirst(BookingById(i) = {}, ForeignBooking(u, i)) \/ ~AdminCancel(u, i, n))
        /\ resp'.op = "delete" =>
             (\A u \in Users, i \in BookingIds :
                 ExistenceFirst(BookingById(i) = {}, ForeignBooking(u, i)) \/ ~AdminDelete(u, i)) ]_vars

\* a venue that its owner deleted was asked for again and the answer is 404,
\* while the other venue is still in the store
C14_Witness ==
    /\ resp = ListReply("venue_get", 404, "venue_not_found", {})
    /\ Cardinality(venues) = 1

\* every store that differs from bs only in the guest fields of its bookings
GuestRewrites(bs) ==
    {{[b EXCEPT !.guestName = f[b][1], !.adminNotes = f[b][2]] : b \in bs} :
        f \in [bs -> Guests \X (Notes \cup {""})]}

\* the bookings of venue v on the day of d that are pending or confirmed
ListedOn(v, d) ==
    {b \in bookings : /\ b.venue = v
                      /\ DayBucket(b.date) = DayBucket(d)
                      /\ b.status \in {"pending", "confirmed"}}

\* C15: an availability request on an active venue answers with one entry
\* {tableNumber, timeSlot, status} per pending or confirmed Booking of that
\* venue on the requested day and with nothing for any other Booking, and
\* the answer is the same for every store that differs from the present one
\* only in the guest fields of its Bookings.
C15_AvailabilityHidesGuests ==
    [][ resp'.op = "availability" =>
          \A v \in VenueIds, d \in Dates :
             (Availability(v, {d}) /\ \E x \in VenueById(v) : x.isActive) =>
                /\ resp'.status = 200
                /\ DOMAIN resp'.items =
                      {[tableNumber |-> b.tableNumber, timeSlot |-> b.timeSlot,
                        status |-> b.status] : b \in ListedOn(v, d)}
                /\ \A e \in DOMAIN resp'.items :
                      resp'.items[e] =
                         Cardinality({b \in ListedOn(v, d) :
                                         /\ b.tableNumber = e.tableNumber
                                         /\ b.timeSlot = e.timeSlot
                                         /\ b.status = e.status})
                /\ \A bs \in GuestRewrites(bookings) :
                      resp'.items = EntriesOf(dayBookings(bs, v, d)) ]_vars

\* an availability answer with an entry, while the store holds a cancelled
\* booking and bookings of both guests, one of them with notes of the owner
C15_Witness ==
    /\ resp.op = "availability" /\ resp.status = 200
    /\ DOMAIN resp.items # {}
    /\ \E b \in bookings : b.status = "cancelled"
    /\ \E b \in bookings, c \in bookings :
          b.guestName # c.guestName /\ c.adminNotes # ""

\* C16: a venue that is inactive or not in the store is left out of the
\* public listing, and an availability request or a booking request whose
\* venue lookup finds it so is answered 404, the booking request going no
\* further and creating nothing.
C16_InactiveVenueClosed ==
    [][ /\ resp'.op = "public_venues" =>
             (PublicVenues =>
                 \A v \in resp'.items : \E x \in venues : x.id = v /\ x.isActive)
        /\ resp'.op = "availability" =>
             (\A v \in VenueIds, d \in Dates :
                 (Availability(v, {d}) /\ ~\E x \in venues : x.id = v /\ x.isActive)
                 => resp'.status = 404)
        /\ \A r \in ReqIds, a \in MenuInputs :
             (BookStart(r, a, TRUE) /\ ~\E x \in venues : x.id = a.venue /\ x.isActive)
             => ( /\ resp' = Reply("book", 404, "venue_not_found_or_inactive")
                  /\ reqs' = reqs
                  /\ bookings' = bookings /\ bookingSeq' = bookingSeq ) ]_vars

\* a booking request was answered 404 for a venue that its owner has closed
C16_Witness ==
    /\ resp = Reply("book", 404, "venue_not_found_or_inactive")
    /\ \E x \in venues : ~x.isActive

\* C17: no Booking in the store references a Venue that is not in the store:
\* once a venue delete has removed the Venue, none of its Bookings is left,
\* booking requests running alongside the delete included.
C17_DeleteCascades ==
    \A b \in bookings : \E x \in venues : x.id = b.venue

\* C18: a Settings document is added to the store only by the settings
\* update, the settings initialize and the setup requests; a GET /settings
\* leaves the store as it was.
C18_ReadsCreateNoSettings ==
    [][ Len(settings') > Len(settings) =>
          resp'.op \in {"settings_put", "settings_init", "setup"} ]_vars

C20_OneSetupUser ==
    Cardinality({x \in users : x.isSetupComplete}) <= 1

\* every collection of the store
storeVars == <<bookVars, pollVars, authVars, importVars>>

\* some document of the store is removed by the step
Shrinks ==
    \/ ~(users \subseteq users') \/ ~(polls \subseteq polls')
    \/ ~(submissions \subseteq submissions') \/ ~(venues \subseteq venues')
    \/ ~(bookings \subseteq bookings') \/ Len(settings') < Len(settings)

\* C21: a delete-account request with a wrong password is answered 401, one
\* with the right password and a confirmation text other than the phrase is
\* answered 400, and neither deletes or changes a document; a step deletes a
\* document only for a request that sent the right password and the phrase.
C21_WipeDoubleGated ==
    [][ /\ (resp'.op = "delete_account") =>
              \A r \in ReqIds, u \in Users, pw \in Optional(Passwords),
                 t \in Optional(ConfirmTexts) :
                 ( /\ UserById(u) # {}
                   /\ pw # {PasswordOf(u)} \/ t # {Phrase}
                   /\ DeleteAccountStart(r, u, pw, t) )
                 => ( /\ pw \notin {{}, {PasswordOf(u)}} => resp'.status = 401
                      /\ pw = {PasswordOf(u)} => resp'.status = 400
                      /\ resp'.status \in {400, 401, 500}
                      /\ reqs' = reqs
                      /\ UNCHANGED storeVars )
        /\ \A r \in ReqIds :
              (reqs[r].pc = "idle" /\ reqs'[r].pc \in WipePcs)
              => ( /\ reqs'[r].confirmPassword = {PasswordOf(reqs'[r].user)}
                   /\ reqs'[r].confirmText = {Phrase} )
        /\ Shrinks => \E r \in ReqIds : reqs[r].pc \in WipePcs /\ reqs'[r] # reqs[r] ]_vars

\* a refusal was sent while the store holds users, bookings, a poll and a submission
C21_Witness ==
    /\ resp \in {Reply("delete_account", 401, "incorrect_password"),
                 Reply("delete_account", 400, "confirmation_required")}
    /\ users # {} /\ bookings # {} /\ polls # {} /\ submissions # {}

\* the header is a Bearer token that verifies and whose user is in the store
Admitted(h) == \E x \in h : x.bearer /\ x.verifies /\ UserById(x.id) # {}

\* C22: for every header the guard either calls next() once or sends one
\* 401, never both; a request to a guarded route whose header is left out,
\* fails verification or names a user that is not in the store is answered
\* 401 and leaves the store and every request in flight unchanged.
C22_GuardDenies ==
    [][ \A h \in Headers :
          /\ Len(protect(h)) = 1
          /\ (protect(h)[1].kind = "next") <=> Admitted(h)
          /\ (~Admitted(h) /\ GuardedRoutes(h))
             => ( /\ resp'.status = 401
                  /\ reqs' = reqs
                  /\ UNCHANGED storeVars ) ]_vars

\* a token that verifies was turned away after the accounts were deleted
C22_Witness ==
    /\ resp.status = 401 /\ resp.msg = "user_not_found"
    /\ users = {}

\* C23: when an import-backup request ends with 500, every Poll, Submission,
\* Venue and Booking the caller owned when the request arrived is still in
\* the store.
C23_FailedImportLosesNothing ==
    [][ \A r \in ReqIds :
          ( /\ reqs[r].pc \in ImportPcs
            /\ reqs'[r] = Idle
            /\ resp'.op = "import" /\ resp'.status = 500 )
          => ( /\ reqs[r].owned.polls \subseteq polls'
               /\ reqs[r].owned.venues \subseteq venues'
               /\ reqs[r].owned.submissions \subseteq submissions'
               /\ reqs[r].owned.bookings \subseteq bookings' ) ]_vars

\* C24: every stored Submission whose parent Poll is in the store has the
\* expireAt that Poll has now.
C24_CoExpiryKept ==
    \A s \in submissions : \A p \in polls : p.id = s.poll => s.expireAt = p.expireAt

\* C25: the store never holds more than one Settings document.
C25_SettingsSingleton == Len(settings) <= 1

\* the index of the backup's poll, or venue, with the old id o
PollIndex(b, o) == CHOOSE j \in DOMAIN b.polls : b.polls[j].id = o
VenueIndex(b, o) == CHOOSE j \in DOMAIN b.venues : b.venues[j].id = o
InBackupPolls(b, o) == \E j \in DOMAIN b.polls : b.polls[j].id = o
InBackupVenues(b, o) == \E j \in DOMAIN b.venues : b.venues[j].id = o

\* C26: the polls and venues an import creates are owned by the caller, one
\* for each poll and venue of the backup; it creates one submission for each
\* submission of the backup whose poll is in the backup, referencing the poll
\* created for that poll, and none for the others; bookings and venues
\* likewise; every reference of a created document is to a document in the
\* store.
C26_ImportRewritesReferences ==
    [][ \A r \in ReqIds : (reqs[r].pc \in ImportPcs /\ reqs'[r] # reqs[r]) =>
          LET b == reqs[r].backup
              u == reqs[r].user
              pollBase == pollSeq - Len(b.polls)
              venueBase == venueSeq - Len(b.venues)
              newPolls == polls' \ polls
              newVenues == venues' \ venues
              newSubs == submissions' \ submissions
              newBookings == bookings' \ bookings
          IN /\ reqs[r].pc = "imp_polls" /\ resp'.status # 500 =>
                  /\ Cardinality(newPolls) = Len(b.polls)
                  /\ \A p \in newPolls : p.user = u
                  /\ \A j \in DOMAIN b.polls : \E p \in newPolls :
                        /\ p.id = pollSeq + j
                        /\ {p.expireAt} = b.polls[j].expireAt
                        /\ p.consentEnabled = b.polls[j].consentEnabled
             /\ reqs[r].pc = "imp_venues" =>
                  /\ Cardinality(newVenues) = Len(b.venues)
                  /\ \A v \in newVenues : v.user = u
                  /\ \A j \in DOMAIN b.venues : \E v \in newVenues :
                        /\ v.id = VenueIdOf(venueSeq + j)
                        /\ v.isActive = b.venues[j].isActive
             /\ reqs[r].pc = "imp_subs" =>
                  /\ Cardinality(newSubs) =
                        Cardinality({k \in DOMAIN b.submissions :
                                        InBackupPolls(b, b.submissions[k].poll)})
                  /\ \A s \in newSubs :
                        /\ \E p \in polls' : p.id = s.poll /\ p.user = u
                        /\ \E k \in DOMAIN b.submissions :
                              /\ InBackupPolls(b, b.submissions[k].poll)
                              /\ s.poll = pollBase + PollIndex(b, b.submissions[k].poll)
                              /\ s.consentAgreed = b.submissions[k].consentAgreed
                              /\ s.expireAt = b.submissions[k].expireAt
                  /\ \A k \in DOMAIN b.submissions :
                        InBackupPolls(b, b.submissions[k].poll) =>
                           \E s \in newSubs :
                              s.poll = pollBase + PollIndex(b, b.submissions[k].poll)
             /\ reqs[r].pc = "imp_bookings" =>
                  /\ Cardinality(newBookings) =
                        Cardinality({k \in DOMAIN b.bookings :
                                        InBackupVenues(b, b.bookings[k].venue)})
                  /\ \A x \in newBookings :
                        /\ \E v \in venues' : v.id = x.venue /\ v.user = u
                        /\ \E k \in DOMAIN b.bookings :
                              /\ InBackupVenues(b, b.bookings[k].venue)
                              /\ x.venue = VenueIdOf(venueBase + VenueIndex(b, b.bookings[k].venue))
                              /\ x.status = b.bookings[k].status
                  /\ \A k \in DOMAIN b.bookings :
                        InBackupVenues(b, b.bookings[k].venue) =>
                           \E x \in newBookings :
                              x.venue = VenueIdOf(venueBase + VenueIndex(b, b.bookings[k].venue))
             /\ reqs[r].pc \notin {"imp_polls", "imp_subs"} => newPolls = {} /\ newSubs = {}
             /\ reqs[r].pc \notin {"imp_venues", "imp_bookings"} =>
                  newVenues = {} /\ newBookings = {} ]_vars

\* an import of the foreign backup succeeded: two of its three submissions
\* and two of its three bookings were created
C26_Witness ==
    /\ resp.op = "import" /\ resp.status = 200
    /\ resp.imported.polls = 2 /\ resp.imported.submissions = 2
    /\ resp.imported.venues = 2 /\ resp.imported.bookings = 2

\* C27: when an import-backup request with replaceExisting is answered 200,
\* no Poll, Venue, Booking or Submission the caller owned when the request
\* arrived is left in the store.
C27_ReplaceClearsOwned ==
    [][ \A r \in ReqIds :
          ( /\ reqs[r].pc \in ImportPcs
            /\ reqs'[r] = Idle
            /\ resp'.op = "import" /\ resp'.status = 200
            /\ reqs[r].replaceExisting )
          => ( /\ reqs[r].owned.polls \cap polls' = {}
               /\ reqs[r].owned.venues \cap venues' = {}
               /\ reqs[r].owned.bookings \cap bookings' = {}
               /\ reqs[r].owned.submissions \cap submissions' = {} ) ]_vars

\* C28: in a store that imports have written to, from backups that hold at
\* most one pending or confirmed booking per tuple, every pending or
\* confirmed Booking is the only one of its tuple.
C28_ImportKeepsExclusive ==
    \A x \in bookings : x.status \in ActiveStatus => ActiveFor(TupleOf(x)) = {x}

\* the backup of another installation was imported twice next to the first
\* store's documents, nothing replaced
C28_Witness ==
    /\ resp.op = "import" /\ resp.status = 200
    /\ importSeq = 2
    /\ Cardinality(venues) = 6
    /\ Cardinality({x \in bookings : x.status \in ActiveStatus}) = 6

\* the documents that belong to user u
UserDocs(u) ==
    [users |-> {x \in users : x.id = u},
     polls |-> {p \in polls : p.user = u},
     submissions |-> {s \in submissions : \E p \in polls : p.user = u /\ p.id = s.poll},
     venues |-> {v \in venues : v.user = u},
     bookings |-> {x \in bookings : \E v \in venues : v.user = u /\ v.id = x.venue}]

\* C29: a step of a delete-account request of user U removes no account and
\* no Poll, Submission, Venue or Booking of another user.
C29_WipeScopedToCaller ==
    [][ \A r \in ReqIds : (reqs[r].pc \in WipePcs /\ reqs'[r] # reqs[r]) =>
          \A u \in Users \ {reqs[r].user} :
             /\ UserDocs(u).users \subseteq users'
             /\ UserDocs(u).polls \subseteq polls'
             /\ UserDocs(u).submissions \subseteq submissions'
             /\ UserDocs(u).venues \subseteq venues'
             /\ UserDocs(u).bookings \subseteq bookings' ]_vars

\* C30: check-setup answers isSetupComplete true exactly when the store
\* holds a User; a well-formed setup request is rejected as already completed
\* exactly then; a delete-account request that ends with 200 leaves no User;
\* and a setup request that found no User creates one admin User and is
\* answered 201.
C30_SetupLifecycle ==
    [][ /\ resp'.op = "check_setup" /\ resp' # resp =>
              resp'.isSetupComplete = (users # {})
        /\ \A r \in ReqIds :
              /\ (reqs[r].pc = "idle" /\ resp'.op = "setup" /\ resp' # resp) =>
                    \A e \in Emails :
                       SetupStart(r, TRUE, e) =>
                          users # {} /\ resp' = Reply("setup", 400, "setup_already_completed")
              /\ (reqs[r].pc = "idle" /\ reqs'[r].pc = "setup_create") => users = {}
              /\ (reqs[r].pc = "wipe_users" /\ reqs'[r] # reqs[r]) =>
                    users' = {} /\ resp' = Reply("delete_account", 200, "ok")
              /\ (reqs[r].pc = "setup_create" /\ reqs'[r] # reqs[r]) =>
                    /\ reqs'[r].pc = "setup_settings"
                    /\ \E x \in users' :
                          /\ users' = users \cup {x} /\ x \notin users
                          /\ x.role = "admin" /\ x.isSetupComplete
              /\ (reqs[r].pc \in {"setup_settings", "setup_settings_save"}
                    /\ reqs'[r] # reqs[r]) =>
                    \/ reqs'[r].pc = "setup_settings_save"
                    \/ reqs'[r] = Idle /\ resp' = Reply("setup", 201, "created") ]_vars

\* a second setup succeeded after the first account was deleted
C30_Witness ==
    /\ resp = Reply("setup", 201, "created")
    /\ userSeq = 2
    /\ \E x \in users : users = {x} /\ x.id = "u2" /\ x.role = "admin"
====
